---- MODULE Spec2Model ----
(***************************************************************************)
(* ChargePilot AI (ml-model): feature builder, model persistence, serving  *)
(* prediction call and the multi-model training run with its weighted      *)
(* ensemble, modelled as state machines.                                   *)
(*                                                                         *)
(* Numbers are exact rationals [n, d] (d > 0, lowest terms); d = 0 stands  *)
(* for the non-finite floats: [n |-> 0, d |-> 0] is NaN and [n |-> +-1,    *)
(* d |-> 0] is +-inf, as numpy produces them on a division by zero.        *)
(***************************************************************************)
EXTENDS Integers, Sequences, FiniteSets, TLC

VARIABLES
    pp,          \* EVDataPreprocessor object: feature_names, scaler, history
    pp_call,     \* the last call made on the preprocessor and its outcome
    tr,          \* the train_advanced.py run: position and script variables
    models_dir,  \* the files of MODELS_DIR (train_advanced.py, api/app.py)
    app,         \* api/app.py: the module-level state set at import
    app_call,    \* the last predict_consumption call and its outcome
    resp,        \* the last POST request of api/app.py and its response
    workers,     \* the request threads of the API process
    model_dir,   \* the files of the directory of save_model / EVRangePredictor
    trainer,     \* the EVRangeTrainer object
    predictor,   \* the EVRangePredictor object
    rt_call,     \* the last EVRangePredictor.predict call and its outcome
    cleaner,     \* the RealDataCleaner object
    clean_call,  \* the last call made on the cleaner and its outcome
    pipeline     \* the run_pipeline.py run: position, locals, cleaned files

vars ==
    <<pp, pp_call, tr, models_dir, app, app_call, resp, workers, model_dir,
      trainer, predictor, rt_call, cleaner, clean_call, pipeline>>

preVars == <<pp, pp_call>>

trainVars == <<tr, models_dir>>

appVars == <<app, app_call, resp, workers>>

persistVars == <<model_dir, trainer, predictor, rt_call>>

cleanVars == <<cleaner, clean_call, pipeline>>

(***************************************************************************)
(* Bounds                                                                  *)
(***************************************************************************)
MaxRows == 2        \* rows of a record set handed to the feature builder

MaxTrainings == 2   \* models trained by EVRangeTrainer objects

(***************************************************************************)
(* Exact arithmetic                                                        *)
(***************************************************************************)
Abs(x) == IF x < 0 THEN -x ELSE x

Sign(x) == IF x < 0 THEN -1 ELSE IF x > 0 THEN 1 ELSE 0

RECURSIVE GCD(_, _)
GCD(a, b) == IF b = 0 THEN a ELSE GCD(b, a % b)

Rat(n, d) ==
    IF d = 0 THEN [n |-> Sign(n), d |-> 0]
    ELSE LET g == GCD(Abs(n), Abs(d))
             s == Sign(d)
         IN  [n |-> (s * n) \div g, d |-> (s * d) \div g]

Int2R(i) == [n |-> i, d |-> 1]

Zero == Int2R(0)

One == Int2R(1)

NaN == [n |-> 0, d |-> 0]

IsNaN(a) == a.d = 0 /\ a.n = 0

IsFinite(a) == a.d # 0

RAdd(a, b) ==
    IF IsNaN(a) \/ IsNaN(b) THEN NaN
    ELSE IF a.d = 0 /\ b.d = 0 THEN (IF a.n = b.n THEN a ELSE NaN)
    ELSE IF a.d = 0 THEN a
    ELSE IF b.d = 0 THEN b
    ELSE LET g == GCD(a.d, b.d)
         IN  Rat(a.n * (b.d \div g) + b.n * (a.d \div g), (a.d \div g) * b.d)

RNeg(a) == [n |-> -a.n, d |-> a.d]

RSub(a, b) == RAdd(a, RNeg(b))

RMul(a, b) ==
    IF IsNaN(a) \/ IsNaN(b) THEN NaN
    ELSE IF a.d = 0 \/ b.d = 0
         THEN [n |-> Sign(a.n) * Sign(b.n), d |-> 0]
    ELSE LET g == GCD(Abs(a.n), b.d)
             h == GCD(Abs(b.n), a.d)
         IN  Rat((a.n \div g) * (b.n \div h), (a.d \div h) * (b.d \div g))

RDiv(a, b) ==
    IF IsNaN(a) \/ IsNaN(b) THEN NaN
    ELSE IF a.d = 0 /\ b.d = 0 THEN NaN
    ELSE IF a.d = 0 THEN [n |-> a.n * (IF b.n < 0 THEN -1 ELSE 1), d |-> 0]
    ELSE IF b.d = 0 THEN Zero
    ELSE IF b.n = 0 THEN [n |-> Sign(a.n), d |-> 0]
    ELSE LET g == GCD(Abs(a.n), Abs(b.n))
             h == GCD(a.d, b.d)
         IN  Rat((a.n \div g) * (b.d \div h), (a.d \div h) * (b.n \div g))

RAbs(a) == [n |-> Abs(a.n), d |-> a.d]

\* a < b and a > b as floats compare: every comparison with NaN is false
RLess(a, b) ==
    IF IsNaN(a) \/ IsNaN(b) THEN FALSE
    ELSE IF a.d = 0 /\ b.d = 0 THEN a.n < b.n
    ELSE IF a.d = 0 THEN a.n < 0
    ELSE IF b.d = 0 THEN b.n > 0
    ELSE LET g == GCD(a.d, b.d)
         IN  a.n * (b.d \div g) < b.n * (a.d \div g)

RGreater(a, b) == RLess(b, a)

RECURSIVE RSum(_)
RSum(s) == IF s = <<>> THEN Zero ELSE RAdd(Head(s), RSum(Tail(s)))

SeqRange(s) == {s[i] : i \in 1..Len(s)}

(***************************************************************************)
(* Record sets (pandas DataFrames)                                         *)
(*                                                                         *)
(* An input record set is [cols, rows]: the canonical columns it has and   *)
(* its rows.  A feature frame is [cols, idx, data]: the ordered column     *)
(* names, the number of index rows and one value series per column.        *)
(***************************************************************************)
CanonicalCols ==
    {"Battery_Capacity_kWh", "Current_SoC_%", "Avg_Speed_kmh", "Temperature_C",
     "Terrain", "AC_Usage", "Driving_Style", "Range_km"}

MkRow(b, s, v, t, ter, ac, dr, rng) ==
    ("Battery_Capacity_kWh" :> b) @@ ("Current_SoC_%" :> s) @@
    ("Avg_Speed_kmh" :> v) @@ ("Temperature_C" :> t) @@ ("Terrain" :> ter) @@
    ("AC_Usage" :> ac) @@ ("Driving_Style" :> dr) @@ ("Range_km" :> rng)

SampleRows ==
    { MkRow(50, 80, 90, 25, "Highway", "YES", "Eco", 200),
      MkRow(40, 100, 40, -5, "City", "Off", "Sport", 30) }

ColumnSets ==
    { CanonicalCols,
      CanonicalCols \ {"Range_km"},
      CanonicalCols \ {"Terrain"},
      {"Range_km"} }

RowSeqs == UNION {[1..k -> SampleRows] : k \in 0..MaxRows}

DataFrames == {[cols |-> cs, rows |-> rs] : cs \in ColumnSets, rs \in RowSeqs}

EmptyDF == [cols |-> {}, rows |-> <<>>]

EmptyFrame == [cols |-> <<>>, idx |-> 0, data |-> <<>>]

\* features[name] = series
SetCol(f, name, series) ==
    [cols |-> IF name \in SeqRange(f.cols) THEN f.cols ELSE Append(f.cols, name),
     idx  |-> IF f.cols = <<>> /\ f.idx = 0 THEN Len(series) ELSE f.idx,
     data |-> [c \in SeqRange(f.cols) \cup {name} |->
                  IF c = name THEN series ELSE f.data[c]]]

\* features[name] = scalar: one value per existing index row
SetScalar(f, name, v) == SetCol(f, name, [i \in 1..f.idx |-> v])

\* pd.concat([f, g], axis=1) of two frames over the same index
Concat(f, g) ==
    [cols |-> f.cols \o g.cols,
     idx  |-> IF f.idx >= g.idx THEN f.idx ELSE g.idx,
     data |-> [c \in SeqRange(f.cols) \cup SeqRange(g.cols) |->
                  IF c \in SeqRange(f.cols) THEN f.data[c] ELSE g.data[c]]]

\* features[names]: the named columns, in the order of names
SelectCols(f, names) ==
    [cols |-> names, idx |-> f.idx, data |-> [c \in SeqRange(names) |-> f.data[c]]]

\* the sort order of the category values (pandas sorts the dummy columns)
CategoryOrder == <<"City", "Eco", "Highway", "Hilly", "Moderate", "Sport">>

\* pd.get_dummies(series, prefix=prefix)
GetDummies(series, prefix) ==
    LET vals == SelectSeq(CategoryOrder, LAMBDA v : v \in SeqRange(series))
    IN  [cols |-> [k \in 1..Len(vals) |-> prefix \o "_" \o vals[k]],
         idx  |-> Len(series),
         data |-> [c \in {prefix \o "_" \o vals[k] : k \in 1..Len(vals)} |->
                     [i \in 1..Len(series) |->
                         IF prefix \o "_" \o series[i] = c THEN One ELSE Zero]]]

\* str.lower() on the values an AC_Usage cell takes here
Lower(s) ==
    CASE s = "On" -> "on" [] s = "Off" -> "off" [] s = "YES" -> "yes"
      [] OTHER -> s

(***************************************************************************)
(* EVDataPreprocessor (src/preprocessor.py)                                *)
(***************************************************************************)
HasCol(f, name) == name \in SeqRange(f.cols)

NumCol(df, c) == [i \in 1..Len(df.rows) |-> Int2R(df.rows[i][c])]

StrCol(df, c) == [i \in 1..Len(df.rows) |-> df.rows[i][c]]

\* evaluate e once and hand its value to Op
Then(e, Op(_)) == CHOOSE r \in {Op(f) : f \in {e}} : TRUE

\* numerical features (preprocessor.py lines 31-49)
NumericalFeatures(df) ==
    LET has(c) == c \in df.cols
        f1 == IF has("Battery_Capacity_kWh")
              THEN SetCol(EmptyFrame, "battery_capacity_kwh",
                          NumCol(df, "Battery_Capacity_kWh"))
              ELSE EmptyFrame
        f2 == IF has("Current_SoC_%")
              THEN SetCol(SetCol(f1, "current_soc_pct", NumCol(df, "Current_SoC_%")),
                          "current_soc_normalized",
                          [i \in 1..Len(df.rows) |->
                              RDiv(Int2R(df.rows[i]["Current_SoC_%"]), Int2R(100))])
              ELSE f1
        f3 == IF has("Avg_Speed_kmh")
              THEN SetCol(f2, "avg_speed_kmh", NumCol(df, "Avg_Speed_kmh")) ELSE f2
        f4 == IF has("Temperature_C")
              THEN SetCol(f3, "temperature_c", NumCol(df, "Temperature_C")) ELSE f3
    IN  IF has("Battery_Capacity_kWh") /\ has("Current_SoC_%")
        THEN SetCol(f4, "available_energy_kwh",
                    [i \in 1..Len(df.rows) |->
                        RDiv(RMul(Int2R(df.rows[i]["Battery_Capacity_kWh"]),
                                  Int2R(df.rows[i]["Current_SoC_%"])), Int2R(100))])
        ELSE f4

\* categorical features (lines 53-65)
CategoricalFeatures(df, f) ==
    LET f6 == IF "Terrain" \in df.cols
              THEN Concat(f, GetDummies(StrCol(df, "Terrain"), "terrain")) ELSE f
        f7 == IF "AC_Usage" \in df.cols
              THEN SetCol(f6, "ac_on",
                          [i \in 1..Len(df.rows) |->
                              IF Lower(df.rows[i]["AC_Usage"]) \in {"on", "yes", "1", "true"}
                              THEN One ELSE Zero])
              ELSE f6
    IN  IF "Driving_Style" \in df.cols
        THEN Concat(f7, GetDummies(StrCol(df, "Driving_Style"), "driving")) ELSE f7

\* interaction features (lines 68-86); each reads columns of the frame so far
SpeedTerrain(f) ==
    IF HasCol(f, "avg_speed_kmh") /\ HasCol(f, "terrain_Highway")
    THEN SetCol(f, "speed_terrain_highway",
                [i \in 1..f.idx |->
                    RMul(f.data["avg_speed_kmh"][i], f.data["terrain_Highway"][i])])
    ELSE f

TempAc(f) ==
    IF HasCol(f, "temperature_c") /\ HasCol(f, "ac_on")
    THEN SetCol(f, "temp_ac_interaction",
                [i \in 1..f.idx |-> RMul(f.data["temperature_c"][i], f.data["ac_on"][i])])
    ELSE f

SpeedDeviation(f) ==
    IF HasCol(f, "avg_speed_kmh")
    THEN SetCol(f, "speed_deviation_from_optimal",
                [i \in 1..f.idx |-> RAbs(RSub(f.data["avg_speed_kmh"][i], Int2R(60)))])
    ELSE f

TempDeviation(f) ==
    IF HasCol(f, "temperature_c")
    THEN SetCol(f, "temp_deviation_from_optimal",
                [i \in 1..f.idx |-> RAbs(RSub(f.data["temperature_c"][i], Rat(45, 2)))])
    ELSE f

\* the columns the construction rules produce from df (lines 28-86)
BuildFeatures(df) ==
    Then(Then(Then(Then(Then(NumericalFeatures(df),
        LAMBDA f : CategoricalFeatures(df, f)),
        LAMBDA f : SpeedTerrain(f)),
        LAMBDA f : TempAc(f)),
        LAMBDA f : SpeedDeviation(f)),
        LAMBDA f : TempDeviation(f))

\* Reconcile without the reordering of line 98: the frame keeps the columns
\* in the order they were produced
Reconcile_NoReorder(f, names) ==
    [cols |-> f.cols \o SelectSeq(names, LAMBDA c : ~HasCol(f, c)),
     idx  |-> f.idx,
     data |-> [c \in SeqRange(f.cols) \cup SeqRange(names) |->
                 IF HasCol(f, c) THEN f.data[c]
                 ELSE [i \in 1..f.idx |-> Zero]]]

\* Reconcile filling a missing feature with 1 instead of 0
Reconcile_FillOne(f, names) ==
    SelectCols([cols |-> f.cols \o SelectSeq(names, LAMBDA c : ~HasCol(f, c)),
                idx  |-> f.idx,
                data |-> [c \in SeqRange(f.cols) \cup SeqRange(names) |->
                            IF HasCol(f, c) THEN f.data[c]
                            ELSE [i \in 1..f.idx |-> One]]],
               names)

\* lines 92-98: add every expected feature that is missing as 0, then keep
\* the columns of names, in the order of names
Reconcile(f, names) ==
    SelectCols([cols |-> f.cols \o SelectSeq(names, LAMBDA c : ~HasCol(f, c)),
                idx  |-> f.idx,
                data |-> [c \in SeqRange(f.cols) \cup SeqRange(names) |->
                            IF HasCol(f, c) THEN f.data[c]
                            ELSE [i \in 1..f.idx |-> Zero]]],
               names)

\* prepare_features storing the column names whatever fit says
prepare_features_Refit(df, fit, feature_names) ==
    Then(BuildFeatures(df), LAMBDA f :
        [feature_names |-> f.cols,
         X |-> Reconcile(f, f.cols),
         y |-> IF "Range_km" \in df.cols
               THEN [present |-> TRUE, values |-> NumCol(df, "Range_km")]
               ELSE [present |-> FALSE, values |-> <<>>],
         raw_cols |-> f.cols])

\* prepare_features(df, fit): returns the feature frame X, the target y, the
\* feature_names the object holds afterwards, and (raw_cols) the columns the
\* construction rules produced before the reconciliation with feature_names
prepare_features(df, fit, feature_names) ==
    Then(BuildFeatures(df), LAMBDA f :
        [feature_names |-> IF fit THEN f.cols ELSE feature_names,
         X |-> Reconcile(f, IF fit THEN f.cols ELSE feature_names),
         y |-> IF "Range_km" \in df.cols
               THEN [present |-> TRUE, values |-> NumCol(df, "Range_km")]
               ELSE [present |-> FALSE, values |-> <<>>],
         raw_cols |-> f.cols])

\* StandardScaler: unfitted after construction
NewScaler == [names |-> <<>>, fitted |-> FALSE, mean |-> <<>>, var |-> <<>>]

ColMean(series) == RDiv(RSum(series), Int2R(Len(series)))

ColVar(series) ==
    LET m == ColMean(series)
    IN  RDiv(RSum([i \in 1..Len(series) |->
                     RMul(RSub(series[i], m), RSub(series[i], m))]),
             Int2R(Len(series)))

\* the input validation of StandardScaler.fit / transform (check_array)
ScalerInputError(X) == X.idx = 0 \/ Len(X.cols) = 0

\* StandardScaler.fit(X): per-column mean and variance; a failed fit leaves
\* the scaler reset
ScalerFit(X) ==
    IF ScalerInputError(X) THEN NewScaler
    ELSE [names |-> X.cols, fitted |-> TRUE,
          mean |-> [j \in 1..Len(X.cols) |-> ColMean(X.data[X.cols[j]])],
          var  |-> [j \in 1..Len(X.cols) |-> ColVar(X.data[X.cols[j]])]]

\* a scaler whose transform validates nothing
ScalerTransformStatus_Unchecked(scaler, X) == "ok"

\* StandardScaler.transform(X): "NotFittedError" before any fit, "ValueError"
\* on an empty matrix or on other columns than the fitted ones, else "ok"
ScalerTransformStatus(scaler, X) ==
    IF ~scaler.fitted THEN "NotFittedError"
    ELSE IF ScalerInputError(X) \/ X.cols # scaler.names THEN "ValueError"
    ELSE "ok"

\* the scaled matrix, by position; a cell [var, num] stands for
\* num / sqrt(var), and for num when the column's variance is 0
ScalerApply(scaler, X) ==
    [i \in 1..X.idx |->
        [j \in 1..Len(X.cols) |->
            [var |-> scaler.var[j],
             num |-> RSub(X.data[X.cols[j]][i], scaler.mean[j])]]]

\* EVDataPreprocessor.__init__
\* (fit_called and fit_names are history: whether fit_transform or load was
\* ever called on the object, and the feature_names the last fit_transform
\* recorded)
NewPreprocessor ==
    [feature_names |-> <<>>, scaler |-> NewScaler, fit_called |-> FALSE,
     fit_names |-> <<>>]

NoCall ==
    [df |-> EmptyDF, X |-> EmptyFrame, raw_cols |-> <<>>, op |-> "init",
     status |-> "ok", scaled |-> <<>>]

\* EVDataPreprocessor.fit_transform(df)
FitTransform(df) ==
    \E r \in {prepare_features(df, TRUE, pp.feature_names)} :
    \E sc \in {ScalerFit(r.X)} :
    LET st == IF ~sc.fitted THEN "ValueError"
              ELSE IF ~r.y.present THEN "AttributeError"
              ELSE "ok"
    IN  /\ pp' = [feature_names |-> r.feature_names, scaler |-> sc,
                  fit_called |-> TRUE, fit_names |-> r.feature_names]
        /\ pp_call' = [df |-> df, X |-> r.X, raw_cols |-> r.raw_cols,
                       op |-> "fit_transform", status |-> st,
                       scaled |-> IF st = "ok" THEN ScalerApply(sc, r.X) ELSE <<>>]
        /\ UNCHANGED <<trainVars, appVars, persistVars, cleanVars>>

\* EVDataPreprocessor.transform(df)
Transform(df) ==
    \E r \in {prepare_features(df, FALSE, pp.feature_names)} :
    LET st == ScalerTransformStatus(pp.scaler, r.X)
    IN  /\ pp' = [pp EXCEPT !.feature_names = r.feature_names]
        /\ pp_call' = [df |-> df, X |-> r.X, raw_cols |-> r.raw_cols,
                       op |-> "transform", status |-> st,
                       scaled |-> IF st = "ok" THEN ScalerApply(pp.scaler, r.X)
                                  ELSE <<>>]
        /\ UNCHANGED <<trainVars, appVars, persistVars, cleanVars>>

\* a direct call of prepare_features(df, fit=False)
PrepareNoFit(df) ==
    \E r \in {prepare_features(df, FALSE, pp.feature_names)} :
        /\ pp' = [pp EXCEPT !.feature_names = r.feature_names]
        /\ pp_call' = [df |-> df, X |-> r.X, raw_cols |-> r.raw_cols,
                       op |-> "prepare_features", status |-> "ok",
                       scaled |-> <<>>]
        /\ UNCHANGED <<trainVars, appVars, persistVars, cleanVars>>

\* a new EVDataPreprocessor()
Construct ==
    /\ pp_call.op # "init"
    /\ pp' = NewPreprocessor
    /\ pp_call' = NoCall
    /\ UNCHANGED <<trainVars, appVars, persistVars, cleanVars>>

(***************************************************************************)
(* train_advanced.py: the multi-model training run                         *)
(*                                                                         *)
(* A fitted regressor is the affine function it predicts with on the one   *)
(* scaled feature of the model, [bias, slope].  The held-out test split    *)
(* is fixed; what estimator.fit returns is the run's input.                *)
(***************************************************************************)
ModelNames ==
    <<"XGBoost", "LightGBM", "CatBoost", "Random Forest", "Extra Trees",
      "Gradient Boosting">>

X_test_scaled == <<Int2R(-1), Int2R(1)>>

y_test == <<Zero, Int2R(10)>>

MkModel(b, a) == [bias |-> b, slope |-> a]

\* the regressors a fit may return; on X_test_scaled they predict
\* (1, 10), (0, 5), (5, 5), (10, 10) and (-10, 5)
FittedModels ==
    { MkModel(Rat(11, 2), Rat(9, 2)), MkModel(Rat(5, 2), Rat(5, 2)),
      MkModel(Int2R(5), Zero), MkModel(Int2R(10), Zero),
      MkModel(Rat(-5, 2), Rat(15, 2)) }

\* model.predict(X)
ModelPredict(model, X) ==
    [i \in 1..Len(X) |-> RAdd(model.bias, RMul(model.slope, X[i]))]

AllFinite(s) == \A i \in 1..Len(s) : IsFinite(s[i])

SqErr(a, b) ==
    RSum([i \in 1..Len(a) |-> RMul(RSub(a[i], b[i]), RSub(a[i], b[i]))])

\* sklearn.metrics.r2_score on finite targets: 1 - SS_res / SS_tot, and for
\* a constant y_true 1.0 on a perfect prediction, 0.0 otherwise
r2_score(y_true, y_pred) ==
    LET mean == RDiv(RSum(y_true), Int2R(Len(y_true)))
        num == SqErr(y_true, y_pred)
        den == SqErr(y_true, [i \in 1..Len(y_true) |-> mean])
    IN  IF den = Zero THEN (IF num = Zero THEN One ELSE Zero)
        ELSE RSub(One, RDiv(num, den))

\* the script variables of a run that has not fitted anything yet, over a
\* dataset with the one feature column distance_km
NewRun ==
    [pc |-> "fit", results |-> <<>>, trained_models |-> <<>>,
     results_df |-> <<>>, best_model_name |-> "", best_score |-> Zero,
     best_accuracy |-> Zero, ensemble_built |-> FALSE, top_models |-> <<>>,
     weights |-> <<>>, ensemble_evaluated |-> FALSE,
     ensemble_test_r2 |-> Zero, error |-> "",
     feature_cols |-> <<"distance_km">>,
     X_train_columns |-> <<"distance_km">>]

\* position of a candidate in the models dict
RECURSIVE IndexOf(_, _, _)
IndexOf(s, x, i) ==
    IF i > Len(s) THEN 0 ELSE IF s[i] = x THEN i ELSE IndexOf(s, x, i + 1)

\* trained_models[name]
TrainedModel(t, name) == t.trained_models[IndexOf(ModelNames, name, 1)]

\* section 7, one iteration of the loop in which model.fit returned m
FitResult(t, m) ==
    LET name == ModelNames[Len(t.results) + 1]
        test_r2 == r2_score(y_test, ModelPredict(m, X_test_scaled))
    IN  [t EXCEPT
            !.results = Append(@, [Model |-> name, TestR2 |-> test_r2,
                                   Accuracy |-> RMul(test_r2, Int2R(100))]),
            !.trained_models = Append(@, m),
            !.pc = IF Len(t.results) + 1 = Len(ModelNames) THEN "compare"
                   ELSE "fit"]

\* section 7, model.fit raised: nothing in the loop catches it
FitRaised(t) == [t EXCEPT !.pc = "aborted", !.error = "fit"]

\* rows of S that no other row of S exceeds in Test R^2
TopRows(S) == {r \in S : \A q \in S : ~RGreater(q.TestR2, r.TestR2)}

\* sort_values('Test R^2', ascending=False): every descending arrangement
\* of the rows; the default quicksort does not fix the order of equal keys
RECURSIVE SortValues(_)
SortValues(S) ==
    IF S = {} THEN {<<>>}
    ELSE UNION {{<<r>> \o rest : rest \in SortValues(S \ {r})} :
                r \in TopRows(S)}

\* SelectBest taking the row at the bottom of the table
SelectBest_Bottom(t, df) ==
    [t EXCEPT !.results_df = df,
              !.best_model_name = df[Len(df)].Model,
              !.best_score = df[Len(df)].TestR2,
              !.best_accuracy = df[Len(df)].Accuracy,
              !.pc = "ensemble"]

\* sections 8 and 9: the comparison table df and the best single model
SelectBest(t, df) ==
    [t EXCEPT !.results_df = df,
              !.best_model_name = df[1].Model,
              !.best_score = df[1].TestR2,
              !.best_accuracy = df[1].Accuracy,
              !.pc = "ensemble"]

\* best_model = trained_models[best_model_name] of section 9
BestModel(t) == TrainedModel(t, t.results_df[1].Model)

EnsembleThreshold == 98

TopK == 3

\* results_df.head(3)
Head3(df) == SubSeq(df, 1, IF Len(df) < TopK THEN Len(df) ELSE TopK)

\* weights / weights.sum() as numpy divides: 0/0 is NaN, x/0 is +-inf
NormalizeWeights(values) ==
    [i \in 1..Len(values) |-> RDiv(values[i], RSum(values))]

\* sum over the members of weight * member.predict(X), from zeros
RECURSIVE WeightedPredict(_, _, _, _)
WeightedPredict(acc, members, w, X) ==
    IF members = <<>> THEN acc
    ELSE WeightedPredict(
             [j \in 1..Len(X) |->
                 RAdd(acc[j], RMul(Head(w), ModelPredict(Head(members), X)[j]))],
             Tail(members), Tail(w), X)

EnsemblePredict(members, w, X) ==
    WeightedPredict([j \in 1..Len(X) |-> Zero], members, w, X)

\* EnsembleScore promoting also on an equal score
EnsembleScore_PromoteOnTie(t, pred) ==
    IF ~AllFinite(pred) THEN [t EXCEPT !.pc = "aborted", !.error = "ValueError"]
    ELSE LET ensemble_test_r2 == r2_score(y_test, pred)
             better == ~RLess(ensemble_test_r2, t.best_score)
         IN  [t EXCEPT
                 !.best_model_name = IF better THEN "Ensemble" ELSE @,
                 !.best_score = IF better THEN ensemble_test_r2 ELSE @,
                 !.best_accuracy =
                     IF better THEN RMul(ensemble_test_r2, Int2R(100)) ELSE @,
                 !.ensemble_evaluated = TRUE,
                 !.ensemble_test_r2 = ensemble_test_r2,
                 !.pc = "save"]

\* section 10 once the ensemble's test predictions pred are computed:
\* r2_score raises ValueError on NaN or infinity, else the promotion test
EnsembleScore(t, pred) ==
    IF ~AllFinite(pred) THEN [t EXCEPT !.pc = "aborted", !.error = "ValueError"]
    ELSE LET ensemble_test_r2 == r2_score(y_test, pred)
             better == RGreater(ensemble_test_r2, t.best_score)
         IN  [t EXCEPT
                 !.best_model_name = IF better THEN "Ensemble" ELSE @,
                 !.best_score = IF better THEN ensemble_test_r2 ELSE @,
                 !.best_accuracy =
                     IF better THEN RMul(ensemble_test_r2, Int2R(100)) ELSE @,
                 !.ensemble_evaluated = TRUE,
                 !.ensemble_test_r2 = ensemble_test_r2,
                 !.pc = "save"]

\* section 10: top three of the table, weights, weighted prediction
EnsembleBuild(t) ==
    LET top == Head3(t.results_df)
        top_models == [i \in 1..Len(top) |-> top[i].Model]
        w == NormalizeWeights([i \in 1..Len(top) |-> top[i].TestR2])
    IN  [t EXCEPT !.ensemble_built = TRUE, !.top_models = top_models,
                  !.weights = w]

\* the members of the ensemble, trained_models[name] for name in top_models
Members(t) == [i \in 1..Len(t.top_models) |-> TrainedModel(t, t.top_models[i])]

\* EnsembleStage building the ensemble also at an accuracy of exactly 98
EnsembleStage_AtMost(t) ==
    IF RGreater(t.best_accuracy, Int2R(EnsembleThreshold))
    THEN [t EXCEPT !.pc = "save"]
    ELSE Then(EnsembleBuild(t),
              LAMBDA b : EnsembleScore(b,
                  EnsemblePredict(Members(b), b.weights, X_test_scaled)))

\* section 10
EnsembleStage(t) ==
    IF ~RLess(t.best_accuracy, Int2R(EnsembleThreshold))
    THEN [t EXCEPT !.pc = "save"]
    ELSE Then(EnsembleBuild(t),
              LAMBDA b : EnsembleScore(b,
                  EnsemblePredict(Members(b), b.weights, X_test_scaled)))

\* ensemble_info of section 10
EnsembleInfo(t) ==
    [trained_models |-> Members(t), weights |-> t.weights, models |-> t.top_models]

\* MODELS_DIR before the first run
EmptyDir ==
    [battery_model |-> <<>>, ensemble_model |-> <<>>, scaler_pkl |-> FALSE,
     feature_info_pkl |-> <<>>, model_metadata |-> <<>>]

\* joblib.dump(ensemble_info, 'ensemble_model.pkl') inside the promotion
DumpEnsemble(t, dir) ==
    IF t.best_model_name = "Ensemble"
    THEN [dir EXCEPT !.ensemble_model = <<EnsembleInfo(t)>>]
    ELSE dir

\* SaveFinal leaving a battery_model.pkl that is already there
SaveFinal_Once(t, dir) ==
    [dir EXCEPT
        !.battery_model =
            IF t.best_model_name # "Ensemble" /\ @ = <<>>
            THEN <<BestModel(t)>> ELSE @,
        !.scaler_pkl = TRUE,
        !.feature_info_pkl = <<[feature_names |-> t.X_train_columns,
                                feature_columns |-> t.feature_cols]>>,
        !.model_metadata = <<[test_r2 |-> t.best_score,
                              best_model |-> t.best_model_name,
                              accuracy |-> t.best_accuracy,
                              n_features |-> Len(t.X_train_columns)]>>]

\* section 11: the final model, scaler, feature info and metadata
SaveFinal(t, dir) ==
    [dir EXCEPT
        !.battery_model =
            IF t.best_model_name # "Ensemble" THEN <<BestModel(t)>> ELSE @,
        !.scaler_pkl = TRUE,
        !.feature_info_pkl = <<[feature_names |-> t.X_train_columns,
                                feature_columns |-> t.feature_cols]>>,
        !.model_metadata = <<[test_r2 |-> t.best_score,
                              best_model |-> t.best_model_name,
                              accuracy |-> t.best_accuracy,
                              n_features |-> Len(t.X_train_columns)]>>]

\* section 7: model.fit of the next candidate returns the regressor m
Fit(m) ==
    /\ tr.pc = "fit"
    /\ tr' = FitResult(tr, m)
    /\ UNCHANGED <<models_dir, preVars, appVars, persistVars, cleanVars>>

\* section 7: model.fit of the next candidate raises
FitThrows ==
    /\ tr.pc = "fit"
    /\ tr' = FitRaised(tr)
    /\ UNCHANGED <<models_dir, preVars, appVars, persistVars, cleanVars>>

\* sections 10 and 11 over the files dir of MODELS_DIR: the finished run
\* and the files it leaves (a run that r2_score aborts writes nothing)
FinishRun(t, dir) ==
    Then(EnsembleStage(t),
         LAMBDA e : IF e.pc = "aborted" THEN [dir |-> dir, run |-> e]
                    ELSE [dir |-> SaveFinal(e, DumpEnsemble(e, dir)),
                          run |-> [e EXCEPT !.pc = "done"]])

\* sections 8 to 11: comparison table, best model, ensemble, files
Finish ==
    /\ tr.pc = "compare"
    /\ \E df \in SortValues(SeqRange(tr.results)) :
       \E o \in {FinishRun(SelectBest(tr, df), models_dir)} :
          /\ tr' = o.run
          /\ models_dir' = o.dir
    /\ UNCHANGED <<preVars, appVars, persistVars, cleanVars>>

(***************************************************************************)
(* api/app.py: model loading at import and predict_consumption             *)
(***************************************************************************)
\* the module before its import ran
NotStarted ==
    [model |-> <<>>, error |-> "", state |-> "down", MODEL_TYPE |-> "",
     model_data |-> <<>>]

NoPredict == [op |-> "none", status |-> "ok", row |-> Zero, value |-> Zero]

\* no request has been answered
NoResponse ==
    [op |-> "none", error |-> "", request |-> <<>>, http |-> 0,
     success |-> FALSE, body |-> <<>>]

\* the request threads of the process; none has a request
Threads == {1, 2}

IdleWorker == [resp |-> NoResponse, pc |-> "idle", overlap |-> FALSE]

NoWorkers == [w \in Threads |-> IdleWorker]

ImportFailed(e) == [NotStarted EXCEPT !.state = "failed", !.error = e]

\* lines 20-37: metadata, then the artifact it names, then scaler and
\* feature info; open / joblib.load raise FileNotFoundError on a missing file
AppImport(dir) ==
    IF dir.model_metadata = <<>> THEN ImportFailed("FileNotFoundError")
    ELSE IF dir.model_metadata[1].best_model = "Ensemble"
    THEN IF dir.ensemble_model = <<>> \/ ~dir.scaler_pkl \/ dir.feature_info_pkl = <<>>
         THEN ImportFailed("FileNotFoundError")
         ELSE [NotStarted EXCEPT !.state = "up", !.MODEL_TYPE = "ensemble",
                                 !.model_data = dir.ensemble_model]
    ELSE IF dir.battery_model = <<>> \/ ~dir.scaler_pkl \/ dir.feature_info_pkl = <<>>
         THEN ImportFailed("FileNotFoundError")
         ELSE [NotStarted EXCEPT !.state = "up", !.MODEL_TYPE = "single",
                                 !.model = dir.battery_model]

\* the names that the body of predict_consumption binds (assignments and for
\* targets, lines 99-103); Python makes every one of them local to the
\* function, in both branches
PredictLocals == {"predictions", "model_name", "weight", "model", "pred"}

\* sum(predictions) over zip(model_data['models'], model_data['weights'])
RECURSIVE SumPredictions(_, _, _)
SumPredictions(bundle, i, row) ==
    IF i > Len(bundle.models) \/ i > Len(bundle.weights) THEN Zero
    ELSE RAdd(RMul(bundle.weights[i],
                   ModelPredict(bundle.trained_models[i], <<row>>)[1]),
              SumPredictions(bundle, i + 1, row))

\* predict_consumption(features_scaled) on the one-row matrix [[row]]
predict_consumption(a, row) ==
    IF a.MODEL_TYPE = "ensemble"
    THEN [status |-> "ok", value |-> SumPredictions(a.model_data[1], 1, row)]
    ELSE IF "model" \in PredictLocals
    THEN [status |-> "UnboundLocalError", value |-> Zero]
    ELSE [status |-> "ok", value |-> ModelPredict(a.model[1], <<row>>)[1]]

\* scaled feature rows of the requests
ServingRows == {Int2R(-1), Zero, Int2R(2)}

\* python api/app.py
StartApp ==
    /\ app.state = "down"
    /\ app' = AppImport(models_dir)
    /\ UNCHANGED <<app_call, resp, workers, preVars, trainVars, persistVars, cleanVars>>

\* a request handler calls predict_consumption
PredictConsumption(row) ==
    /\ app.state = "up"
    /\ \E r \in {predict_consumption(app, row)} :
          app_call' = [op |-> "predict_consumption", status |-> r.status,
                       row |-> row, value |-> r.value]
    /\ UNCHANGED <<app, resp, workers, preVars, trainVars, persistVars, cleanVars>>

\* the process is stopped
StopApp ==
    /\ app.state # "down"
    /\ app' = NotStarted
    /\ app_call' = NoPredict
    /\ resp' = NoResponse
    /\ workers' = NoWorkers
    /\ UNCHANGED <<preVars, trainVars, persistVars, cleanVars>>

\* the runs whose artifacts the served directory may hold: the first three
\* candidates fit to any regressor, the last three to the weaker ones
RECURSIVE FitAll(_, _)
FitAll(t, fits) ==
    IF fits = <<>> THEN t ELSE FitAll(FitResult(t, Head(fits)), Tail(fits))

ServedFits ==
    {f \o <<MkModel(Int2R(10), Zero), MkModel(Rat(-5, 2), Rat(15, 2)),
            MkModel(Rat(-5, 2), Rat(15, 2))>> : f \in [1..3 -> FittedModels]}

RunOutcomes(fits) ==
    LET t == FitAll(NewRun, fits)
    IN  {FinishRun(SelectBest(t, df), EmptyDir) :
            df \in SortValues(SeqRange(t.results))}

TrainedRuns == UNION {RunOutcomes(fits) : fits \in ServedFits}

(***************************************************************************)
(* src/trainer.py save_model and src/predictor.py EVRangePredictor         *)
(*                                                                         *)
(* A trained model is [kind, ver]: the estimator family and the number of  *)
(* the training that produced it.  A file is the sequence of its content:  *)
(* <<>> when it does not exist, <<model>> for the model it was written     *)
(* from.                                                                   *)
(***************************************************************************)
ModelTypes == <<"neural", "random_forest", "gradient_boost">>

Files ==
    {"preprocessor.pkl", "range_predictor_neural.keras",
     "range_predictor_savedmodel", "range_predictor_neural.h5",
     "range_predictor_random_forest.pkl", "range_predictor_gradient_boost.pkl",
     "model.tflite", "metrics.json", "metadata.json"}

NoFiles == [f \in Files |-> <<>>]

\* EVRangeTrainer(): model_type 'neural', model None
NewTrainer == [model |-> <<>>, model_type |-> "neural", trainings |-> 0]

\* (saved is history: the model of the last save_model into the directory
\* at the time the predictor was constructed; every save writes
\* metadata.json)
NoPredictor ==
    [model |-> <<>>, error |-> "", state |-> "none", model_type |-> "",
     preprocessor |-> <<>>, saved |-> <<>>, message |-> "", expected |-> <<>>]

NoRangeCall ==
    [op |-> "none", status |-> "ok", input |-> 0, range_km |-> 0,
     confidence |-> ""]

\* the ranges in km that the model of the first training predicts for the
\* inputs 1, 2, ...
BaseRange == <<30, 50, 100, 150, 200>>

\* the range a model predicts for an input: distinct models and distinct
\* inputs give distinct ranges
RangeOf(m, input) == BaseRange[input] + (m.ver - 1)

\* lines 147-153
Confidence_AtLeast(predicted_range) ==
    IF predicted_range >= 150 THEN "high"
    ELSE IF predicted_range >= 50 THEN "medium"
    ELSE "low"

Confidence(predicted_range) ==
    IF predicted_range > 150 THEN "high"
    ELSE IF predicted_range > 50 THEN "medium"
    ELSE "low"

PkFile(model_type) == "range_predictor_" \o model_type \o ".pkl"

\* what save_model writes from a trainer that was not trained: the new
\* preprocessor of the trainer
Unfitted == [ver |-> 0, kind |-> "neural"]

\* save_model(output_dir): the files after the call; exported and converted
\* tell whether the SavedModel export and the TFLite conversion succeeded
\* (their exceptions are caught and only printed).  The preprocessor is
\* written first; on a trainer without a model (a new trainer is neural)
\* self.model.save then raises AttributeError and nothing else is written
save_model(t, dir, exported, converted) ==
    IF t.model = <<>> THEN [dir EXCEPT !["preprocessor.pkl"] = <<Unfitted>>]
    ELSE
    [f \in Files |->
        IF f \in {"preprocessor.pkl", "metrics.json", "metadata.json"}
        THEN t.model
        ELSE IF t.model_type = "neural"
        THEN IF \/ f = "range_predictor_neural.keras"
                \/ f = "range_predictor_savedmodel" /\ exported
                \/ f = "model.tflite" /\ converted
             THEN t.model
             ELSE dir[f]
        ELSE IF f = PkFile(t.model_type) THEN t.model
        ELSE dir[f]]

Loaded(m, model_type, pre) ==
    [model |-> m, error |-> "", state |-> "loaded", model_type |-> model_type,
     preprocessor |-> pre, saved |-> <<>>, message |-> "", expected |-> <<>>]

\* lines 25-26: the preprocessor file is not there
PreprocessorNotFound ==
    [NoPredictor EXCEPT !.state = "failed", !.error = "FileNotFoundError",
                        !.message = "Preprocessor not found"]

\* lines 84-94: no artifact was loaded; the message lists the artifacts
\* under "Expected one of"
ExpectedOneOf ==
    <<"range_predictor_neural.keras", "range_predictor_savedmodel",
      "range_predictor_random_forest.pkl",
      "range_predictor_gradient_boost.pkl">>

NoCompatibleModel ==
    [NoPredictor EXCEPT !.state = "failed", !.error = "FileNotFoundError",
                        !.message = "No compatible model found",
                        !.expected = ExpectedOneOf]

\* EVRangePredictor(model_dir): the first artifact found in the order
\* .keras, SavedModel, .h5, random_forest, gradient_boost; sm_loads tells
\* whether load_model accepts a SavedModel directory
EVRangePredictor(dir, sm_loads) ==
    IF dir["preprocessor.pkl"] = <<>>
    THEN PreprocessorNotFound
    ELSE IF dir["range_predictor_neural.keras"] # <<>>
    THEN Loaded(dir["range_predictor_neural.keras"], "neural",
                dir["preprocessor.pkl"])
    ELSE IF dir["range_predictor_savedmodel"] # <<>> /\ sm_loads
    THEN Loaded(dir["range_predictor_savedmodel"], "neural",
                dir["preprocessor.pkl"])
    ELSE IF dir["range_predictor_neural.h5"] # <<>>
    THEN Loaded(dir["range_predictor_neural.h5"], "neural",
                dir["preprocessor.pkl"])
    ELSE IF dir["range_predictor_random_forest.pkl"] # <<>>
    THEN Loaded(dir["range_predictor_random_forest.pkl"], "random_forest",
                dir["preprocessor.pkl"])
    ELSE IF dir["range_predictor_gradient_boost.pkl"] # <<>>
    THEN Loaded(dir["range_predictor_gradient_boost.pkl"], "gradient_boost",
                dir["preprocessor.pkl"])
    ELSE NoCompatibleModel

\* EVRangePredictor.predict, lines 134-162: self.model.predict(X, verbose=0);
\* the predict of the scikit-learn regressors takes no verbose argument
predict(p, input) ==
    IF p.model[1].kind = "neural"
    THEN [status |-> "ok", range_km |-> RangeOf(p.model[1], input),
          confidence |-> Confidence(RangeOf(p.model[1], input))]
    ELSE [status |-> "TypeError", range_km |-> 0, confidence |-> ""]

PredictInputs == DOMAIN BaseRange

\* EVRangeTrainer(model_type), load_data and train_<model_type>
TrainModel(model_type) ==
    /\ trainer.trainings < MaxTrainings
    /\ trainer' = [model |-> <<[ver |-> trainer.trainings + 1,
                                kind |-> model_type]>>,
                   model_type |-> model_type,
                   trainings |-> trainer.trainings + 1]
    /\ UNCHANGED <<model_dir, predictor, rt_call, preVars, trainVars, appVars, cleanVars>>

\* trainer.save_model(dir)
SaveModel(exported, converted) ==
    /\ model_dir' = save_model(trainer, model_dir, exported, converted)
    /\ UNCHANGED <<trainer, predictor, rt_call, preVars, trainVars, appVars, cleanVars>>

\* EVRangePredictor(dir)
LoadPredictor(sm_loads) ==
    /\ predictor' = [EVRangePredictor(model_dir, sm_loads) EXCEPT
                         !.saved = model_dir["metadata.json"]]
    /\ rt_call' = NoRangeCall
    /\ UNCHANGED <<model_dir, trainer, preVars, trainVars, appVars, cleanVars>>

\* predictor.predict(...)
Predict(input) ==
    /\ predictor.state = "loaded"
    /\ \E r \in {predict(predictor, input)} :
          rt_call' = [op |-> "predict", status |-> r.status, input |-> input,
                      range_km |-> r.range_km, confidence |-> r.confidence]
    /\ UNCHANGED <<model_dir, trainer, predictor, preVars, trainVars, appVars, cleanVars>>

(***************************************************************************)
(* api/app.py: the POST request handlers                                   *)
(*                                                                         *)
(* A request is [kind, <fields>, row].  kind is "object" for a JSON object *)
(* with numeric fields, "text" for an object whose numeric fields hold     *)
(* non-numeric text, "null" for the JSON body null and "malformed" for a   *)
(* body that is not JSON.  A field is <<>> when the object has no such key *)
(* and <<v>> when it holds v.  row is the scaled feature row that          *)
(* prepare_features and scaler.transform compute from the other fields.    *)
(* Floats are exact rationals; predicted_consumption is a numpy scalar, so *)
(* every division it enters follows numpy (x/0 is inf or nan, no raise).   *)
(***************************************************************************)
SAFETY_BUFFER == Rat(3, 20)

RECURSIVE Pow10(_)
Pow10(k) == IF k = 0 THEN 1 ELSE 10 * Pow10(k - 1)

\* round(x, ndigits): the nearest multiple of 10^-ndigits, halves to even;
\* inf and nan are returned unchanged
Round_Floor(x, ndigits) ==
    IF x.d = 0 THEN x
    ELSE LET s == RMul(x, Int2R(Pow10(ndigits)))
         IN  Rat(s.n \div s.d, Pow10(ndigits))

Round(x, ndigits) ==
    IF x.d = 0 THEN x
    ELSE LET s == RMul(x, Int2R(Pow10(ndigits)))
             q == s.n \div s.d
             twice == 2 * (s.n - q * s.d)
             r == IF twice < s.d THEN q
                  ELSE IF twice > s.d THEN q + 1
                  ELSE IF q % 2 = 0 THEN q ELSE q + 1
         IN  Rat(r, Pow10(ndigits))

\* min(a, b) and max(a, b) as Python evaluates them: the first argument
\* unless the second compares smaller (larger)
PyMin(a, b) == IF RLess(b, a) THEN b ELSE a

PyMax(a, b) == IF RGreater(b, a) THEN b ELSE a

\* a >= b on floats
RGeq(a, b) == ~IsNaN(a) /\ ~IsNaN(b) /\ ~RLess(a, b)

\* data.get(key, default)
Get(data, key, default) ==
    IF data[key] = <<>> THEN default ELSE data[key][1]

\* request.get_json(), data.get on its result and the float(...) calls at
\* the top of a handler: the exception raised, "" when they all return
ParseError(data) ==
    IF data.kind = "malformed" THEN "BadRequest"
    ELSE IF data.kind = "null" THEN "AttributeError"
    ELSE IF data.kind = "text" THEN "ValueError"
    ELSE ""

\* except Exception as e: return jsonify({"success": False, ...}), 400
ErrorResponse_Uncaught(e) ==
    [NoResponse EXCEPT !.error = e, !.http = 500]

ErrorResponse(e) ==
    [NoResponse EXCEPT !.error = e, !.http = 400]

\* return jsonify({"success": True, ...}), 200
SuccessResponse(body) ==
    [NoResponse EXCEPT !.http = 200, !.success = TRUE, !.body = <<body>>]

\* the type of current_pct >= required_battery_pct (line 181): current_pct
\* is a float; required_battery_pct is the numpy.float64 that min() passed
\* through, and then numpy makes the comparison and returns a numpy.bool_,
\* or it is the int 100
IsReachableType(pct) ==
    IF RLess(Int2R(100), pct) THEN "bool" ELSE "numpy.bool_"

\* jsonify(...): the exception the JSON provider raises for a value of a
\* type it does not serialise, "" when it returns
JsonError(type) ==
    IF type \in {"bool", "int", "float", "str", "NoneType"} THEN ""
    ELSE "TypeError"

\* lines 117-148
predict_range(a, metadata, data) ==
    IF ParseError(data) # "" THEN ErrorResponse(ParseError(data))
    ELSE
    LET battery_pct == Get(data, "battery_percentage", Int2R(100))
        battery_capacity == Get(data, "battery_capacity_kwh", Int2R(50))
        pc == predict_consumption(a, data.row)
        predicted_consumption == pc.value
        available_energy_kwh ==
            RMul(RDiv(battery_pct, Int2R(100)), battery_capacity)
        predicted_range_km == RDiv(available_energy_kwh, predicted_consumption)
        safe_range_km == RMul(predicted_range_km, RSub(One, SAFETY_BUFFER))
    IN  IF pc.status # "ok" THEN ErrorResponse(pc.status)
        ELSE SuccessResponse(
               [available_energy_kwh |-> Round(available_energy_kwh, 2),
                predicted_range_km |-> Round(safe_range_km, 2),
                max_range_km |-> Round(predicted_range_km, 2),
                consumption_kwh_per_100km |->
                    Round(RMul(predicted_consumption, Int2R(100)), 2),
                safety_buffer_percent |-> RMul(SAFETY_BUFFER, Int2R(100)),
                model_accuracy |-> metadata.accuracy])

\* lines 150-192
recommend_charge(a, metadata, data) ==
    IF ParseError(data) # "" THEN ErrorResponse(ParseError(data))
    ELSE
    LET distance_needed == Get(data, "distance_to_destination_km", Zero)
        battery_capacity == Get(data, "battery_capacity_kwh", Int2R(50))
        current_pct == Get(data, "current_battery_pct", Int2R(100))
        pc == predict_consumption(a, data.row)
        predicted_consumption == pc.value
        energy_needed_kwh ==
            RDiv(RMul(distance_needed, predicted_consumption),
                 RSub(One, SAFETY_BUFFER))
        pct == RMul(RDiv(energy_needed_kwh, battery_capacity), Int2R(100))
        required_battery_pct == PyMin(pct, Int2R(100))
        charge_needed_pct == PyMax(Zero, RSub(required_battery_pct, current_pct))
        charger_power_kw == Int2R(50)
        energy_to_add == RMul(RDiv(charge_needed_pct, Int2R(100)), battery_capacity)
        charging_time_minutes ==
            RMul(RDiv(energy_to_add, charger_power_kw), Int2R(60))
        estimated_cost == RMul(energy_to_add, Int2R(20))
    IN  IF pc.status # "ok" THEN ErrorResponse(pc.status)
        ELSE IF JsonError(IsReachableType(pct)) # ""
        THEN ErrorResponse(JsonError(IsReachableType(pct)))
        ELSE SuccessResponse(
               [model_accuracy |-> metadata.accuracy,
                energy_needed_kwh |-> Round(energy_needed_kwh, 2),
                required_battery_pct |-> Round(required_battery_pct, 1),
                charge_needed_pct |-> Round(charge_needed_pct, 1),
                is_reachable |-> RGeq(current_pct, required_battery_pct),
                current_battery_pct |-> current_pct,
                estimated_charging_time_minutes |->
                    Round(charging_time_minutes, 1),
                estimated_cost_inr |-> Round(estimated_cost, 2)])

\* lines 230-261, on the mapping that predict() builds (lines 214-222)
predict_range_internal(a, data) ==
    IF ParseError(data) # "" THEN ErrorResponse(ParseError(data))
    ELSE
    LET battery_pct == Get(data, "battery_percent", Int2R(100))
        battery_capacity == Get(data, "battery_capacity", Int2R(50))
        pc == predict_consumption(a, data.row)
        predicted_consumption == pc.value
        available_energy_kwh ==
            RMul(RDiv(battery_pct, Int2R(100)), battery_capacity)
        predicted_range_km == RDiv(available_energy_kwh, predicted_consumption)
        safe_range_km == RMul(predicted_range_km, RSub(One, SAFETY_BUFFER))
    IN  IF pc.status # "ok" THEN ErrorResponse(pc.status)
        ELSE SuccessResponse(
               [predicted_range |-> Round(safe_range_km, 2),
                max_range_km |-> Round(predicted_range_km, 2),
                battery_percent |-> battery_pct,
                method |-> "trained_model"])

\* lines 263-324
recommend_charging(a, data) ==
    IF ParseError(data) # "" THEN ErrorResponse(ParseError(data))
    ELSE
    LET distance_needed == Get(data, "distance_remaining", Zero)
        battery_capacity == Get(data, "battery_capacity", Int2R(50))
        current_pct == Get(data, "current_soc", Int2R(100))
        charger_power == Get(data, "charger_power", Int2R(50))
        pc == predict_consumption(a, data.row)
        predicted_consumption == pc.value
        energy_needed_kwh ==
            RDiv(RMul(distance_needed, predicted_consumption),
                 RSub(One, SAFETY_BUFFER))
        required_battery_pct ==
            PyMin(RMul(RDiv(energy_needed_kwh, battery_capacity), Int2R(100)),
                  Int2R(100))
        charge_needed_pct == PyMax(Zero, RSub(required_battery_pct, current_pct))
        energy_to_add == RMul(RDiv(charge_needed_pct, Int2R(100)), battery_capacity)
        avg_charging_speed ==
            IF RGreater(required_battery_pct, Int2R(80))
            THEN RMul(charger_power, Rat(6, 10))
            ELSE RMul(charger_power, Rat(85, 100))
        charging_time_minutes ==
            RMul(RDiv(energy_to_add, avg_charging_speed), Int2R(60))
        estimated_cost == RMul(energy_to_add, Int2R(15))
    IN  IF pc.status # "ok" THEN ErrorResponse(pc.status)
        ELSE SuccessResponse(
               [estimated_cost |-> Round(estimated_cost, 0),
                current_soc |-> current_pct,
                recommended_target_soc |-> Round(required_battery_pct, 1),
                kwh_to_charge |-> Round(energy_to_add, 2),
                estimated_time_minutes |-> Round(charging_time_minutes, 0),
                distance_remaining |-> distance_needed,
                safety_buffer_included |-> TRUE])

\* the request bodies of the handlers: objects with and without each key,
\* and one body of every kind that is not an object of numbers
BodyKinds == {"text", "null", "malformed"}

ApiRows == ServingRows \cup {Rat(-47, 100), Rat(-1, 2)}

PredictRangeRequests ==
    [row : ApiRows, kind : {"object"},
     battery_percentage : {<<>>, <<Int2R(80)>>},
     battery_capacity_kwh : {<<>>, <<Int2R(40)>>}]
    \cup [row : {Zero}, kind : BodyKinds, battery_percentage : {<<>>},
          battery_capacity_kwh : {<<>>}]

RecommendChargeRequests ==
    [row : ApiRows, kind : {"object"},
     current_battery_pct : {<<>>, <<Int2R(20)>>, <<Rat(9996, 100)>>},
     battery_capacity_kwh : {<<>>},
     distance_to_destination_km : {<<>>, <<Int2R(100)>>, <<Int2R(1000)>>}]
    \cup [row : {Zero}, kind : BodyKinds, current_battery_pct : {<<>>},
          battery_capacity_kwh : {<<>>}, distance_to_destination_km : {<<>>}]

LegacyPredictRequests ==
    [row : ApiRows, kind : {"object"}, battery_capacity : {<<>>},
     battery_percent : {<<>>, <<Int2R(80)>>}]
    \cup [row : {Zero}, kind : BodyKinds, battery_capacity : {<<>>},
          battery_percent : {<<>>}]

RecommendChargingRequests ==
    [row : ApiRows, kind : {"object"}, battery_capacity : {<<>>},
     charger_power : {<<>>, <<Int2R(100)>>},
     current_soc : {<<>>, <<Int2R(20)>>},
     distance_remaining : {<<Int2R(100)>>, <<Int2R(1000)>>}]
    \cup [row : {Zero}, kind : BodyKinds, battery_capacity : {<<>>},
          charger_power : {<<>>}, current_soc : {<<>>},
          distance_remaining : {<<>>}]

\* the directories the API process is started over: those of the runs in
\* which XGBoost and LightGBM fitted as below, which leave every kind of
\* directory (no metadata, a single model, an ensemble with weights in
\* (0, 1), an ensemble with a negative weight)
ApiFits ==
    {f \in ServedFits :
        /\ f[1] = MkModel(Rat(-5, 2), Rat(15, 2))
        /\ f[2] \in {MkModel(Rat(5, 2), Rat(5, 2)), MkModel(Int2R(10), Zero)}}

ApiDirs == {o.dir : o \in UNION {RunOutcomes(fits) : fits \in ApiFits}}

\* the metadata dict read at import
Metadata == models_dir.model_metadata[1]

\* POST /api/predict-range
PredictRange(data) ==
    /\ app.state = "up"
    /\ resp' = [predict_range(app, Metadata, data) EXCEPT
                   !.op = "/api/predict-range", !.request = <<data>>]
    /\ UNCHANGED <<app, app_call, workers, preVars, trainVars, persistVars, cleanVars>>

\* POST /api/recommend-charge
RecommendCharge(data) ==
    /\ app.state = "up"
    /\ resp' = [recommend_charge(app, Metadata, data) EXCEPT
                   !.op = "/api/recommend-charge", !.request = <<data>>]
    /\ UNCHANGED <<app, app_call, workers, preVars, trainVars, persistVars, cleanVars>>

\* POST /predict (lines 207-228)
LegacyPredict(data) ==
    /\ app.state = "up"
    /\ resp' = [predict_range_internal(app, data) EXCEPT
                   !.op = "/predict", !.request = <<data>>]
    /\ UNCHANGED <<app, app_call, workers, preVars, trainVars, persistVars, cleanVars>>

\* POST /recommend-charging
RecommendCharging(data) ==
    /\ app.state = "up"
    /\ resp' = [recommend_charging(app, data) EXCEPT
                   !.op = "/recommend-charging", !.request = <<data>>]
    /\ UNCHANGED <<app, app_call, workers, preVars, trainVars, persistVars, cleanVars>>

(***************************************************************************)
(* src/clean_real_data.py: RealDataCleaner                                 *)
(*                                                                         *)
(* A raw or cleaned record set is [columns, dtypes, rows]: the column      *)
(* names in order, the dtype of each column ("float64" or "object") and    *)
(* the rows, each a sequence of cells in column order.  A float64 cell is  *)
(* an exact rational, NaN when null; an object cell is a string, NullStr   *)
(* when null.                                                              *)
(***************************************************************************)
UpperLetters == "ABCDEFGHIJKLMNOPQRSTUVWXYZ"

LowerLetters == "abcdefghijklmnopqrstuvwxyz"

\* the position of the one-character string c in letters, 0 when absent
LetterIndex(letters, c) ==
    IF \E i \in 1..Len(letters) : SubSeq(letters, i, i) = c
    THEN CHOOSE i \in 1..Len(letters) : SubSeq(letters, i, i) = c
    ELSE 0

\* str.lower()
RECURSIVE str_lower(_)
str_lower(s) ==
    IF s = "" THEN ""
    ELSE LET c == SubSeq(s, 1, 1)
             i == LetterIndex(UpperLetters, c)
         IN  (IF i = 0 THEN c ELSE SubSeq(LowerLetters, i, i))
                 \o str_lower(SubSeq(s, 2, Len(s)))

\* the first position at or after from where the literal piece occurs in
\* s, 0 when it does not
RECURSIVE Find(_, _, _)
Find(s, piece, from) ==
    IF from + Len(piece) - 1 > Len(s) THEN 0
    ELSE IF SubSeq(s, from, from + Len(piece) - 1) = piece THEN from
    ELSE Find(s, piece, from + 1)

\* re.search of the pattern piece1.*piece2.*... in s, from position from
RECURSIVE SearchPieces(_, _, _)
SearchPieces(pieces, s, from) ==
    IF pieces = <<>> THEN TRUE
    ELSE LET i == Find(s, Head(pieces), from)
         IN  i # 0 /\ SearchPieces(Tail(pieces), s, i + Len(Head(pieces)))

\* a pattern of the tables below is the sequence of the literals that its
\* ".*" separate; <<"^", literal, "$">> is the anchored pattern ^literal$
re_search(pattern, s) ==
    IF Head(pattern) = "^" THEN s = pattern[2]
    ELSE SearchPieces(pattern, s, 1)

\* lines 31-62 and 65-81: the canonical fields in dict order, each with
\* its ordered pattern list
ConsumptionPatterns ==
    << <<"Battery_Capacity_kWh",
         << <<"battery", "capacity">>, <<"capacity", "kwh">>,
            <<"battery", "kwh">>, <<"bat", "cap">>, <<"kwh">>,
            <<"capacity">> >> >>,
       <<"Current_SoC_%",
         << <<"soc">>, <<"state", "charge">>, <<"battery", "level">>,
            <<"charge", "level">>, <<"battery", "percent">>, <<"soc", "%">>,
            <<"current", "soc">> >> >>,
       <<"Avg_Speed_kmh",
         << <<"speed">>, <<"avg", "speed">>, <<"average", "speed">>,
            <<"velocity">>, <<"km", "h">>, <<"kmph">>, <<"speed", "kmh">> >> >>,
       <<"Temperature_C",
         << <<"temp">>, <<"temperature">>, <<"ambient", "temp">>,
            <<"temp", "c">>, <<"celsius">> >> >>,
       <<"Terrain",
         << <<"terrain">>, <<"road", "type">>, <<"route", "type">>,
            <<"driving", "condition">> >> >>,
       <<"AC_Usage",
         << <<"ac">>, <<"air", "condition">>, <<"hvac">>, <<"ac", "usage">>,
            <<"climate">> >> >>,
       <<"Driving_Style",
         << <<"driving", "style">>, <<"drive", "mode">>, <<"style">>,
            <<"mode">>, <<"driving", "behavior">> >> >>,
       <<"Range_km",
         << <<"range">>, <<"distance">>, <<"range", "km">>,
            <<"actual", "range">>, <<"achieved", "range">>,
            <<"km", "range">> >> >> >>

StationsPatterns ==
    << <<"Station_Name",
         << <<"name">>, <<"station", "name">>, <<"title">>,
            <<"location", "name">> >> >>,
       <<"Latitude", << <<"lat">>, <<"latitude">>, <<"^", "lat", "$">> >> >>,
       <<"Longitude",
         << <<"lon">>, <<"lng">>, <<"longitude">>, <<"^", "lon", "$">>,
            <<"^", "lng", "$">> >> >>,
       <<"City", << <<"city">>, <<"town">>, <<"location">>, <<"area">> >> >>,
       <<"State", << <<"state">>, <<"province">>, <<"region">> >> >> >>

\* lines 85-92 for one field: the first column, in column order, whose
\* lower-cased name any pattern of the list matches; <<>> when none does
RECURSIVE MatchColumn(_, _, _)
MatchColumn(columns, pattern_list, i) ==
    IF i > Len(columns) THEN <<>>
    ELSE IF \E k \in 1..Len(pattern_list) :
               re_search(pattern_list[k], str_lower(columns[i]))
    THEN <<columns[i]>>
    ELSE MatchColumn(columns, pattern_list, i + 1)

\* auto_detect_columns(df, dataset_type): the mapping dict as the sequence
\* of its items <<std_name, actual_name>> in insertion order
RECURSIVE DetectFrom(_, _, _)
DetectFrom(columns, patterns, f) ==
    IF f > Len(patterns) THEN <<>>
    ELSE LET hit == MatchColumn(columns, patterns[f][2], 1)
         IN  (IF hit = <<>> THEN <<>> ELSE << <<patterns[f][1], hit[1]>> >>)
                 \o DetectFrom(columns, patterns, f + 1)

auto_detect_columns(columns, dataset_type) ==
    DetectFrom(columns,
               IF dataset_type = "consumption" THEN ConsumptionPatterns
               ELSE StationsPatterns, 1)

\* the null of an object column
NullStr == "<NA>"

\* isnull() of a cell of the given dtype
IsNull(cell, dtype) ==
    IF dtype = "float64" THEN IsNaN(cell) ELSE cell = NullStr

ColIndex(df, name) == IndexOf(df.columns, name, 1)

HasColumn(df, name) == ColIndex(df, name) # 0

\* df[name] as the sequence of its cells
Series(df, name) ==
    [r \in 1..Len(df.rows) |-> df.rows[r][ColIndex(df, name)]]

\* the rows at the positions in keep, in order
RECURSIVE KeepRows(_, _, _)
KeepRows(rows, keep, r) ==
    IF r > Len(rows) THEN <<>>
    ELSE (IF r \in keep THEN <<rows[r]>> ELSE <<>>)
             \o KeepRows(rows, keep, r + 1)

\* df[mask]
Filter(df, keep) == [df EXCEPT !.rows = KeepRows(df.rows, keep, 1)]

\* lines 116-121: df_clean[std_name] = df[actual_name] for every item
Project(df, mapping) ==
    [rows |-> [r \in 1..Len(df.rows) |->
                  [i \in 1..Len(mapping) |->
                      df.rows[r][ColIndex(df, mapping[i][2])]]],
     columns |-> [i \in 1..Len(mapping) |-> mapping[i][1]],
     dtypes |-> [i \in 1..Len(mapping) |->
                    df.dtypes[ColIndex(df, mapping[i][2])]]]

\* drop_duplicates(subset): the first of the rows equal on the subset
\* columns is kept; nulls compare equal
drop_duplicates(df, subset) ==
    LET key(r) == [i \in 1..Len(subset) |->
                      df.rows[r][ColIndex(df, subset[i])]]
    IN  Filter(df, {r \in 1..Len(df.rows) :
                       \A q \in 1..(r - 1) : key(q) # key(r)})

\* the non-null cells of a series
RECURSIVE DropNa(_, _)
DropNa(series, dtype) ==
    IF series = <<>> THEN <<>>
    ELSE (IF IsNull(Head(series), dtype) THEN <<>> ELSE <<Head(series)>>)
             \o DropNa(Tail(series), dtype)

\* ascending sort of finite floats
RECURSIVE SortFloats(_)
SortFloats(s) ==
    IF s = <<>> THEN <<>>
    ELSE LET m == CHOOSE i \in 1..Len(s) :
                     \A j \in 1..Len(s) : ~RLess(s[j], s[i])
         IN  <<s[m]>> \o SortFloats(SubSeq(s, 1, m - 1) \o
                                    SubSeq(s, m + 1, Len(s)))

\* Series.quantile(q), linear interpolation over the non-null values;
\* q is the rational [n, d]
quantile(series, q) ==
    LET v == SortFloats(DropNa(series, "float64"))
        pos == RMul(q, Int2R(Len(v) - 1))
        lo == pos.n \div pos.d
        frac == RSub(pos, Int2R(lo))
    IN  IF v = <<>> THEN NaN
        ELSE IF lo + 1 >= Len(v) THEN v[Len(v)]
        ELSE RAdd(v[lo + 1], RMul(frac, RSub(v[lo + 2], v[lo + 1])))

\* Series.median()
median(series) == quantile(series, Rat(1, 2))

\* the code points of the characters of the cells, in ascending order
CodeOrder ==
    " %-.0123456789<>ABCDEFGHIJKLMNOPQRSTUVWXYZ_abcdefghijklmnopqrstuvwxyz"

\* a < b on str
RECURSIVE StrLess(_, _)
StrLess(a, b) ==
    IF b = "" THEN FALSE
    ELSE IF a = "" THEN TRUE
    ELSE LET x == LetterIndex(CodeOrder, SubSeq(a, 1, 1))
             y == LetterIndex(CodeOrder, SubSeq(b, 1, 1))
         IN  IF x # y THEN x < y
             ELSE StrLess(SubSeq(a, 2, Len(a)), SubSeq(b, 2, Len(b)))

\* Series.mode(): the most frequent non-null values, sorted; line 149
\* takes the first, or 'Unknown' when there is none
ModeOrUnknown(series) ==
    LET v == DropNa(series, "object")
        count(x) == Cardinality({i \in 1..Len(v) : v[i] = x})
        modes == {x \in SeqRange(v) : \A z \in SeqRange(v) : count(z) <= count(x)}
    IN  IF v = <<>> THEN "Unknown"
        ELSE CHOOSE x \in modes : \A z \in modes : ~StrLess(z, x)

\* df_clean[col].fillna(value, inplace=True) (lines 142, 150): the fill
\* reaches df_clean when df_clean[col] is a view of the frame, and is
\* lost when pandas hands out a copy (copy-on-write); in_place says which
fillna(df, name, value, in_place) ==
    LET c == ColIndex(df, name)
    IN  IF ~in_place THEN df
        ELSE [df EXCEPT !.rows =
                 [r \in 1..Len(df.rows) |->
                     [df.rows[r] EXCEPT ![c] =
                         IF IsNull(@, df.dtypes[c]) THEN value ELSE @]]]

\* lines 137-151: nulls of numeric columns get the column median, of
\* object columns the mode
RECURSIVE FillMissing(_, _, _)
FillMissing(df, c, in_place) ==
    IF c > Len(df.columns) THEN df
    ELSE LET name == df.columns[c]
             series == Series(df, name)
             has_null == \E r \in 1..Len(series) :
                             IsNull(series[r], df.dtypes[c])
         IN  FillMissing(
                 IF ~has_null THEN df
                 ELSE IF df.dtypes[c] = "float64"
                 THEN fillna(df, name, median(series), in_place)
                 ELSE fillna(df, name, ModeOrUnknown(series), in_place),
                 c + 1, in_place)

\* str.title(): a letter is upper-cased at the start of a run of letters
\* and lower-cased inside one
RECURSIVE TitleFrom(_, _)
TitleFrom(s, in_word) ==
    IF s = "" THEN ""
    ELSE LET c == SubSeq(s, 1, 1)
             u == LetterIndex(UpperLetters, c)
             l == LetterIndex(LowerLetters, c)
             k == IF u # 0 THEN u ELSE l
         IN  (IF k = 0 THEN c
              ELSE IF in_word THEN SubSeq(LowerLetters, k, k)
              ELSE SubSeq(UpperLetters, k, k))
                 \o TitleFrom(SubSeq(s, 2, Len(s)), k # 0)

\* astype(str) of an object cell: a null becomes the text nan
astype_str(cell) == IF cell = NullStr THEN "nan" ELSE cell

\* lines 154-161: df_clean[name] = df_clean[name].astype(str).str.title()
\* when the column is there (the raw sets below map object columns to
\* these fields)
Standardize(df, name) ==
    LET c == ColIndex(df, name)
    IN  IF c = 0 THEN df
        ELSE [df EXCEPT !.rows =
                 [r \in 1..Len(df.rows) |->
                     [df.rows[r] EXCEPT ![c] = TitleFrom(astype_str(@), FALSE)]]]

\* a <= x <= b on floats
Between(x, a, b) == RGeq(x, a) /\ RGeq(b, x)

\* lines 164-169: rows whose Range_km is within [1st, 99th percentile],
\* when the column is there
RemoveOutliers_Keep(df) == df

RemoveOutliers(df) ==
    LET s == Series(df, "Range_km")
        Q1 == quantile(s, Rat(1, 100))
        Q3 == quantile(s, Rat(99, 100))
    IN  IF ~HasColumn(df, "Range_km") THEN df
        ELSE Filter(df, {r \in 1..Len(s) : Between(s[r], Q1, Q3)})

\* lines 172-176 and 222-225: rows whose cell of the column is in [a, b],
\* when the column is there
ValidateRange_Unchecked(df, name, a, b) == df

ValidateRange(df, name, a, b) ==
    LET s == Series(df, name)
    IN  IF ~HasColumn(df, name) THEN df
        ELSE Filter(df, {r \in 1..Len(s) : Between(s[r], Int2R(a), Int2R(b))})

\* lines 111-113 and 197-199: nothing was detected, the warning outcome
NotDetected_Fatal(df) == [mapping |-> <<>>, returned |-> <<>>]

NotDetected(df) == [mapping |-> <<>>, returned |-> <<df>>]

\* line 124: the target column is not among the mapped columns
MissingTarget_Never(df_clean) == FALSE

MissingTarget(df_clean) == ~HasColumn(df_clean, "Range_km")

\* lines 210-213: an essential column is not among the mapped columns
MissingEssential(df_clean) ==
    \E col \in {"Station_Name", "Latitude", "Longitude"} :
        ~HasColumn(df_clean, col)

\* lines 96-180; the result is the mapping kept on the cleaner and the
\* value returned, <<>> for None
clean_consumption_data(df, in_place) ==
    Then(auto_detect_columns(df.columns, "consumption"), LAMBDA mapping :
        IF mapping = <<>> THEN NotDetected(df)
        ELSE Then(Project(df, mapping), LAMBDA df_clean :
            IF MissingTarget(df_clean)
            THEN [mapping |-> mapping, returned |-> <<>>]
            ELSE [mapping |-> mapping,
                  returned |->
                    <<ValidateRange(
                        ValidateRange(
                          RemoveOutliers(
                            Standardize(
                              Standardize(
                                Standardize(
                                  FillMissing(
                                    drop_duplicates(df_clean, df_clean.columns),
                                    1, in_place),
                                  "Terrain"),
                                "AC_Usage"),
                              "Driving_Style")),
                          "Current_SoC_%", 0, 100),
                        "Temperature_C", -20, 60)>>]))

Digits == "0123456789"

\* str(i)
RECURSIVE IntStr(_)
IntStr(i) ==
    IF i < 10 THEN SubSeq(Digits, i + 1, i + 1)
    ELSE IntStr(i \div 10) \o SubSeq(Digits, (i % 10) + 1, (i % 10) + 1)

\* s.zfill(width)
RECURSIVE zfill(_, _)
zfill(s, width) == IF Len(s) >= width THEN s ELSE zfill("0" \o s, width)

\* lines 227-233: the Firebase fields and the station ids
AddStationFields(df) ==
    [rows |-> [r \in 1..Len(df.rows) |->
                  df.rows[r] \o <<Int2R(100), FALSE, "dataset",
                                  "ST" \o zfill(IntStr(r - 1), 6)>>],
     columns |-> df.columns \o
                    <<"health_score", "is_verified", "source", "Station_ID">>,
     dtypes |-> df.dtypes \o <<"int64", "bool", "object", "object">>]

\* lines 182-238
clean_stations_data(df) ==
    Then(auto_detect_columns(df.columns, "stations"), LAMBDA mapping :
        IF mapping = <<>> THEN NotDetected(df)
        ELSE Then(Project(df, mapping), LAMBDA df_clean :
            IF MissingEssential(df_clean)
            THEN [mapping |-> mapping, returned |-> <<>>]
            ELSE [mapping |-> mapping,
                  returned |->
                    <<AddStationFields(
                        ValidateRange(
                          ValidateRange(
                            drop_duplicates(df_clean,
                                            <<"Latitude", "Longitude">>),
                            "Latitude", -90, 90),
                          "Longitude", -180, 180))>>]))

\* the raw record sets: the columns of a CSV file, their dtypes and the
\* rows it may hold; numeric fields are read from float64 columns and the
\* text fields from object columns
RawSchema(columns, dtypes, records) ==
    [columns |-> columns, dtypes |-> dtypes, records |-> records]

ConsumptionSchemas ==
    << RawSchema(<<"SOC", "Temp", "Range">>,
                 <<"float64", "float64", "float64">>,
                 { <<Int2R(50), Int2R(25), Int2R(100)>>,
                   <<Int2R(120), Int2R(25), Int2R(100)>>,
                   <<NaN, Int2R(25), Int2R(100)>>,
                   <<Int2R(50), Int2R(70), Int2R(100)>>,
                   <<Int2R(80), Int2R(25), Int2R(300)>> }),
       RawSchema(<<"Terrain", "Range">>, <<"object", "float64">>,
                 { <<"highway", Int2R(100)>>, <<"HIGHWAY", Int2R(100)>>,
                   <<NullStr, Int2R(100)>>, <<"highway", NaN>> }),
       RawSchema(<<"kWh_used", "Battery_kWh", "Range">>,
                 <<"float64", "float64", "float64">>,
                 { <<Int2R(10), Int2R(40), Int2R(100)>>,
                   <<NaN, Int2R(40), Int2R(100)>> }),
       RawSchema(<<"SOC", "Temp">>, <<"float64", "float64">>,
                 { <<Int2R(50), Int2R(25)>>, <<Int2R(120), Int2R(70)>> }),
       RawSchema(<<"id", "notes">>, <<"float64", "object">>,
                 { <<Int2R(1), "x">>, <<Int2R(2), "x">> }) >>

StationsSchemas ==
    << RawSchema(<<"Name", "Lat", "Lng">>, <<"object", "float64", "float64">>,
                 { <<"A", Int2R(12), Int2R(77)>>, <<"B", Int2R(12), Int2R(77)>>,
                   <<"A", Int2R(95), Int2R(77)>>, <<"A", NaN, Int2R(77)>>,
                   <<"B", Int2R(12), Int2R(-200)>>,
                   <<NullStr, Int2R(13), Int2R(77)>> }),
       RawSchema(<<"Name", "Lat">>, <<"object", "float64">>,
                 { <<"A", Int2R(12)>>, <<NullStr, Int2R(95)>> }),
       RawSchema(<<"id", "notes">>, <<"float64", "object">>,
                 { <<Int2R(1), "x">>, <<Int2R(2), "x">> }) >>

\* the longest raw record set of a call on the cleaner
MaxRawRows == 3

\* the longest raw file of a pipeline run
MaxPipelineRows == 2

\* the row sequences of at most max_rows rows of a schema
RawRows(schema, max_rows) ==
    UNION {[1..k -> schema.records] : k \in 0..max_rows}

\* pd.read_csv of a file of the schema with the rows
RawFrame(schema, rows) ==
    [rows |-> rows, columns |-> schema.columns, dtypes |-> schema.dtypes]

\* a new RealDataCleaner
NewCleaner ==
    [consumption_mapping |-> <<>>, stations_mapping |-> <<>>]

NoCleanCall ==
    [df |-> <<>>, op |-> "none", in_place |-> FALSE, returned |-> <<>>]

\* cleaner = RealDataCleaner()
ConstructCleaner ==
    /\ clean_call.op # "none"
    /\ cleaner' = NewCleaner
    /\ clean_call' = NoCleanCall
    /\ UNCHANGED <<pipeline, preVars, trainVars, appVars, persistVars>>

\* cleaner.clean_consumption_data(df) on a new cleaner
CleanConsumption(df, in_place) ==
    /\ clean_call.op = "none"
    /\ \E r \in {clean_consumption_data(df, in_place)} :
          /\ cleaner' = [cleaner EXCEPT !.consumption_mapping = r.mapping]
          /\ clean_call' = [df |-> <<df>>, op |-> "clean_consumption_data",
                            in_place |-> in_place, returned |-> r.returned]
    /\ UNCHANGED <<pipeline, preVars, trainVars, appVars, persistVars>>

\* cleaner.clean_stations_data(df) on a new cleaner
CleanStations(df) ==
    /\ clean_call.op = "none"
    /\ \E r \in {clean_stations_data(df)} :
          /\ cleaner' = [cleaner EXCEPT !.stations_mapping = r.mapping]
          /\ clean_call' = [df |-> <<df>>, op |-> "clean_stations_data",
                            in_place |-> FALSE, returned |-> r.returned]
    /\ UNCHANGED <<pipeline, preVars, trainVars, appVars, persistVars>>

(***************************************************************************)
(* run_pipeline.py: the pipeline runner                                    *)
(*                                                                         *)
(* The runner waits for the user between its stages, so a stage is a step. *)
(* A cleaned file is the sequence of its content, <<>> when it was not     *)
(* written; consumption_clean and stations_clean are the locals of         *)
(* run_cleaning, <<>> for None; steps lists the stages entered.            *)
(***************************************************************************)
PipelineConsumptionSchemas ==
    << RawSchema(<<"SOC", "Range">>, <<"float64", "float64">>,
                 { <<Int2R(50), Int2R(100)>>, <<Int2R(120), Int2R(100)>>,
                   <<Int2R(50), Int2R(300)>> }),
       RawSchema(<<"SOC", "Temp">>, <<"float64", "float64">>,
                 { <<Int2R(50), Int2R(25)>> }),
       RawSchema(<<"id", "notes">>, <<"float64", "object">>,
                 { <<Int2R(1), "x">> }) >>

PipelineStationsSchemas ==
    << RawSchema(<<"Name", "Lat", "Lng">>, <<"object", "float64", "float64">>,
                 { <<"A", Int2R(12), Int2R(77)>>,
                   <<"A", Int2R(95), Int2R(77)>> }),
       RawSchema(<<"Name", "Lat">>, <<"object", "float64">>,
                 { <<"A", Int2R(12)>> }),
       RawSchema(<<"id", "notes">>, <<"float64", "object">>,
                 { <<Int2R(1), "x">> }) >>

NewPipeline ==
    [cleaner |-> NewCleaner, pc |-> "menu", choice |-> "", steps |-> <<>>,
     consumption_clean |-> <<>>, stations_clean |-> <<>>,
     CONSUMPTION_CLEAN_CSV |-> <<>>, STATIONS_CLEAN_CSV |-> <<>>]

\* run_cleaning whose result is not looked at by main
run_cleaning_Unchecked(p, consumption_raw, stations_raw, in_place) ==
    Then(clean_consumption_data(consumption_raw, in_place), LAMBDA c :
    Then(clean_stations_data(stations_raw), LAMBDA s :
        [p EXCEPT
            !.steps = Append(@, "cleaning"),
            !.cleaner = [consumption_mapping |-> c.mapping,
                         stations_mapping |-> s.mapping],
            !.consumption_clean = c.returned,
            !.stations_clean = s.returned,
            !.CONSUMPTION_CLEAN_CSV = c.returned,
            !.STATIONS_CLEAN_CSV =
                IF c.returned # <<>> THEN s.returned ELSE @,
            !.pc = IF p.choice = "1" THEN "training" ELSE "complete"]))

\* lines 63-96: both cleaners run before anything is written; a None
\* result returns False after the writes that precede it
run_cleaning(p, consumption_raw, stations_raw, in_place) ==
    Then(clean_consumption_data(consumption_raw, in_place), LAMBDA c :
    Then(clean_stations_data(stations_raw), LAMBDA s :
        [p EXCEPT
            !.steps = Append(@, "cleaning"),
            !.cleaner = [consumption_mapping |-> c.mapping,
                         stations_mapping |-> s.mapping],
            !.consumption_clean = c.returned,
            !.stations_clean = s.returned,
            !.CONSUMPTION_CLEAN_CSV = c.returned,
            !.STATIONS_CLEAN_CSV =
                IF c.returned # <<>> THEN s.returned ELSE @,
            !.pc = IF c.returned # <<>> /\ s.returned # <<>> /\ p.choice = "1"
                   THEN "training" ELSE "complete"]))

\* lines 170-190: the choice entered at the menu; training alone wants
\* the cleaned consumption file
Choose(choice) ==
    /\ pipeline.pc = "menu"
    /\ pipeline' = [pipeline EXCEPT
                        !.choice = choice,
                        !.pc = IF choice \in {"1", "2"} THEN "inspection"
                               ELSE IF choice = "3" THEN "cleaning"
                               ELSE IF choice = "4"
                               THEN IF pipeline.CONSUMPTION_CLEAN_CSV = <<>>
                                    THEN "returned" ELSE "training"
                               ELSE IF choice = "5" THEN "testing"
                               ELSE "returned"]
    /\ UNCHANGED <<cleaner, clean_call, preVars, trainVars, appVars,
                   persistVars>>

\* run_inspection()
RunInspection ==
    /\ pipeline.pc = "inspection"
    /\ pipeline' = [pipeline EXCEPT !.steps = Append(@, "inspection"),
                                    !.pc = IF pipeline.choice = "1"
                                           THEN "cleaning" ELSE "complete"]
    /\ UNCHANGED <<cleaner, clean_call, preVars, trainVars, appVars,
                   persistVars>>

\* run_cleaning()
RunCleaning(consumption_raw, stations_raw, in_place) ==
    /\ pipeline.pc = "cleaning"
    /\ pipeline' = run_cleaning(pipeline, consumption_raw, stations_raw,
                                in_place)
    /\ UNCHANGED <<cleaner, clean_call, preVars, trainVars, appVars,
                   persistVars>>

\* run_training(): a neural trainer is trained on the cleaned file and
\* saved, unless loading or fitting raises
RunTraining(raised, exported, converted) ==
    /\ pipeline.pc = "training"
    /\ pipeline' = [pipeline EXCEPT !.steps = Append(@, "training"),
                                    !.pc = IF raised THEN "aborted"
                                           ELSE IF pipeline.choice = "1"
                                           THEN "testing" ELSE "complete"]
    /\ IF raised THEN UNCHANGED <<trainer, model_dir>>
       ELSE \E t \in {[model |-> <<[ver |-> 1, kind |-> "neural"]>>,
                       model_type |-> "neural", trainings |-> 1]} :
               /\ trainer' = t
               /\ model_dir' = save_model(t, model_dir, exported, converted)
    /\ UNCHANGED <<cleaner, clean_call, predictor, rt_call, preVars,
                   trainVars, appVars>>

\* run_pipeline.py:127-135, the input of the test prediction
test_input == 3

\* run_testing(): the predictor is loaded from the model directory and
\* asked for one prediction; a failed load or prediction raises
RunTesting(sm_loads) ==
    /\ pipeline.pc = "testing"
    /\ \E p \in {EVRangePredictor(model_dir, sm_loads)} :
          /\ predictor' = [p EXCEPT !.saved = model_dir["metadata.json"]]
          /\ IF p.state = "loaded"
             THEN \E r \in {predict(p, test_input)} :
                     /\ rt_call' = [op |-> "predict", status |-> r.status,
                                    input |-> test_input,
                                    range_km |-> r.range_km,
                                    confidence |-> r.confidence]
                     /\ pipeline' = [pipeline EXCEPT
                                         !.steps = Append(@, "testing"),
                                         !.pc = IF r.status = "ok"
                                                THEN "complete"
                                                ELSE "aborted"]
             ELSE /\ rt_call' = NoRangeCall
                  /\ pipeline' = [pipeline EXCEPT
                                      !.steps = Append(@, "testing"),
                                      !.pc = "aborted"]
    /\ UNCHANGED <<cleaner, clean_call, trainer, model_dir, preVars,
                   trainVars, appVars>>

(***************************************************************************)
(* api/app.py: requests served concurrently                                *)
(*                                                                         *)
(* The development server runs every request in a thread of its own.  A    *)
(* thread accepts a request and later answers it; between the two steps    *)
(* the other thread may accept and answer requests.                        *)
(***************************************************************************)
\* the module-level state (metadata, model, model_data, scaler,
\* feature_info) after a handler ran: no handler has a global statement,
\* assigns one of these names or calls a mutating method on them
GlobalsAfterRequest_Rebound(a) == [a EXCEPT !.MODEL_TYPE = "single"]

GlobalsAfterRequest(a) == a

\* the response of the handler of a route
Handle(a, op, data) ==
    [(IF op = "/api/predict-range" THEN predict_range(a, Metadata, data)
      ELSE recommend_charge(a, Metadata, data))
        EXCEPT !.op = op, !.request = <<data>>]

\* the requests of the threads
ServeRangeRequests ==
    {d \in PredictRangeRequests :
        /\ d.row \in {Zero, Int2R(2)}
        /\ d.kind \in {"object", "null"}
        /\ d.battery_capacity_kwh = <<>>}

ServeChargeRequests ==
    {d \in RecommendChargeRequests :
        d.row = Int2R(2) /\ d.current_battery_pct = <<Int2R(20)>>}

\* a thread receives a POST request of the route
Accept(w, op, data) ==
    /\ app.state = "up"
    /\ workers[w].pc # "accepted"
    /\ workers' = [workers EXCEPT ![w] =
                      [resp |-> [NoResponse EXCEPT !.op = op,
                                                   !.request = <<data>>],
                       pc |-> "accepted",
                       overlap |-> FALSE]]
    /\ UNCHANGED <<app, app_call, resp, preVars, trainVars, persistVars,
                   cleanVars>>

\* the thread runs the handler and answers
Respond(w) ==
    /\ app.state = "up"
    /\ workers[w].pc = "accepted"
    /\ workers' = [workers EXCEPT ![w] =
                      [resp |-> Handle(app, workers[w].resp.op,
                                       workers[w].resp.request[1]),
                       pc |-> "answered",
                       overlap |-> \E v \in Threads \ {w} :
                                      workers[v].pc = "accepted"]]
    /\ app' = GlobalsAfterRequest(app)
    /\ UNCHANGED <<app_call, resp, preVars, trainVars, persistVars, cleanVars>>

(***************************************************************************)
(* train_advanced.py run again and again over one models directory         *)
(***************************************************************************)
\* the feature columns of the datasets the runs are given
TrainingFeatureCols == { <<"distance_km">>, <<"Speed_kmh", "temp_c">> }

\* what the fits of the runs return: a run that promotes the ensemble, a
\* run that selects LightGBM or CatBoost after an ensemble that is no
\* better, and a run that selects CatBoost without an ensemble
RunFits ==
    { << MkModel(Rat(-5, 2), Rat(15, 2)), MkModel(Rat(5, 2), Rat(5, 2)),
         MkModel(Rat(-5, 2), Rat(15, 2)), MkModel(Int2R(10), Zero),
         MkModel(Rat(-5, 2), Rat(15, 2)), MkModel(Rat(-5, 2), Rat(15, 2)) >>,
      << MkModel(Int2R(5), Zero), MkModel(Rat(5, 2), Rat(5, 2)),
         MkModel(Rat(5, 2), Rat(5, 2)), MkModel(Int2R(5), Zero),
         MkModel(Int2R(10), Zero), MkModel(Rat(-5, 2), Rat(15, 2)) >>,
      << MkModel(Rat(5, 2), Rat(5, 2)), MkModel(Int2R(5), Zero),
         MkModel(Rat(11, 2), Rat(9, 2)), MkModel(Int2R(5), Zero),
         MkModel(Int2R(10), Zero), MkModel(Rat(-5, 2), Rat(15, 2)) >> }

\* the number of candidates fitted before the fit that raises
FittedBeforeRaise == 3

Mentions(col, words) == \E w \in words : Find(str_lower(col), w, 1) # 0

\* section 5 on the columns of X: a _squared column after the others for
\* every speed column
RECURSIVE AddSquared(_, _)
AddSquared(columns, todo) ==
    IF todo = <<>> THEN columns
    ELSE AddSquared(IF Mentions(Head(todo), {"speed", "velocity"})
                    THEN Append(columns, Head(todo) \o "_squared")
                    ELSE columns,
                    Tail(todo))

\* then a _deviation column for every temperature column of the result
RECURSIVE AddDeviation(_, _)
AddDeviation(columns, todo) ==
    IF todo = <<>> THEN columns
    ELSE AddDeviation(IF Mentions(Head(todo), {"temp", "temperature"})
                      THEN Append(columns, Head(todo) \o "_deviation")
                      ELSE columns,
                      Tail(todo))

\* X_train.columns
EngineerFeatures(feature_cols) ==
    Then(AddSquared(feature_cols, feature_cols),
         LAMBDA X : AddDeviation(X, X))

\* the script variables before section 7 of a run over feature_cols
StartRun(feature_cols) ==
    [NewRun EXCEPT !.feature_cols = feature_cols,
                   !.X_train_columns = EngineerFeatures(feature_cols)]

\* one run of the script into MODELS_DIR in which every fit returned
TrainAdvanced(feature_cols, fits) ==
    /\ \E t \in {FitAll(StartRun(feature_cols), fits)} :
       \E df \in SortValues(SeqRange(t.results)) :
       \E o \in {FinishRun(SelectBest(t, df), models_dir)} :
          /\ tr' = o.run
          /\ models_dir' = o.dir
    /\ UNCHANGED <<preVars, appVars, persistVars, cleanVars>>

\* one run in which the fit after the first fitted candidates raised
TrainAdvancedRaises(feature_cols, fits, fitted) ==
    /\ tr' = FitRaised(FitAll(StartRun(feature_cols),
                              SubSeq(fits, 1, fitted)))
    /\ UNCHANGED <<models_dir, preVars, appVars, persistVars, cleanVars>>

(***************************************************************************)
(* Specifications                                                          *)
(***************************************************************************)
\* the feature builder
InitPre ==
    /\ pp = NewPreprocessor /\ pp_call = NoCall
    /\ tr = NewRun /\ models_dir = EmptyDir
    /\ app = NotStarted /\ app_call = NoPredict /\ resp = NoResponse
    /\ workers = NoWorkers
    /\ model_dir = NoFiles /\ trainer = NewTrainer
    /\ predictor = NoPredictor /\ rt_call = NoRangeCall
    /\ cleaner = NewCleaner /\ clean_call = NoCleanCall
    /\ pipeline = NewPipeline

NextPre ==
    \/ \E df \in DataFrames : FitTransform(df)
    \/ \E df \in DataFrames : Transform(df)
    \/ \E df \in DataFrames : PrepareNoFit(df)
    \/ Construct

SpecPre == InitPre /\ [][NextPre]_vars

\* one train_advanced.py run into an empty MODELS_DIR
Init ==
    /\ pp = NewPreprocessor /\ pp_call = NoCall
    /\ tr = NewRun /\ models_dir = EmptyDir
    /\ app = NotStarted /\ app_call = NoPredict /\ resp = NoResponse
    /\ workers = NoWorkers
    /\ model_dir = NoFiles /\ trainer = NewTrainer
    /\ predictor = NoPredictor /\ rt_call = NoRangeCall
    /\ cleaner = NewCleaner /\ clean_call = NoCleanCall
    /\ pipeline = NewPipeline

Next ==
    \/ \E m \in FittedModels : Fit(m)
    \/ FitThrows
    \/ Finish

Spec == Init /\ [][Next]_vars

\* the API process over the directory a training run left
InitApp ==
    /\ pp = NewPreprocessor /\ pp_call = NoCall
    /\ \E o \in TrainedRuns : tr = o.run /\ models_dir = o.dir
    /\ app = NotStarted /\ app_call = NoPredict /\ resp = NoResponse
    /\ workers = NoWorkers
    /\ model_dir = NoFiles /\ trainer = NewTrainer
    /\ predictor = NoPredictor /\ rt_call = NoRangeCall
    /\ cleaner = NewCleaner /\ clean_call = NoCleanCall
    /\ pipeline = NewPipeline

NextApp ==
    \/ StartApp
    \/ \E row \in ServingRows : PredictConsumption(row)
    \/ StopApp

SpecApp == InitApp /\ [][NextApp]_vars

\* the API process answering POST requests over the directory of a run
InitApi ==
    /\ pp = NewPreprocessor /\ pp_call = NoCall
    /\ tr = NewRun /\ models_dir \in ApiDirs
    /\ app = NotStarted /\ app_call = NoPredict /\ resp = NoResponse
    /\ workers = NoWorkers
    /\ model_dir = NoFiles /\ trainer = NewTrainer
    /\ predictor = NoPredictor /\ rt_call = NoRangeCall
    /\ cleaner = NewCleaner /\ clean_call = NoCleanCall
    /\ pipeline = NewPipeline

NextApi ==
    \/ StartApp
    \/ \E data \in PredictRangeRequests : PredictRange(data)
    \/ \E data \in RecommendChargeRequests : RecommendCharge(data)
    \/ \E data \in LegacyPredictRequests : LegacyPredict(data)
    \/ \E data \in RecommendChargingRequests : RecommendCharging(data)
    \/ StopApp

SpecApi == InitApi /\ [][NextApi]_vars

\* the API process, started over the directory of a run, serving two
\* threads
InitServe ==
    /\ pp = NewPreprocessor /\ pp_call = NoCall
    /\ tr = NewRun /\ models_dir \in ApiDirs
    /\ app = AppImport(models_dir) /\ app_call = NoPredict
    /\ resp = NoResponse /\ workers = NoWorkers
    /\ model_dir = NoFiles /\ trainer = NewTrainer
    /\ predictor = NoPredictor /\ rt_call = NoRangeCall
    /\ cleaner = NewCleaner /\ clean_call = NoCleanCall
    /\ pipeline = NewPipeline

NextServe ==
    \/ \E w \in Threads :
          \/ \E data \in ServeRangeRequests :
                Accept(w, "/api/predict-range", data)
          \/ \E data \in ServeChargeRequests :
                Accept(w, "/api/recommend-charge", data)
    \/ \E w \in Threads : Respond(w)

SpecServe == InitServe /\ [][NextServe]_vars

\* trainers saving into one directory and predictors loading from it
InitPersist ==
    /\ pp = NewPreprocessor /\ pp_call = NoCall
    /\ tr = NewRun /\ models_dir = EmptyDir
    /\ app = NotStarted /\ app_call = NoPredict /\ resp = NoResponse
    /\ workers = NoWorkers
    /\ model_dir = NoFiles /\ trainer = NewTrainer
    /\ predictor = NoPredictor /\ rt_call = NoRangeCall
    /\ cleaner = NewCleaner /\ clean_call = NoCleanCall
    /\ pipeline = NewPipeline

NextPersist ==
    \/ \E model_type \in SeqRange(ModelTypes) : TrainModel(model_type)
    \/ \E exported, converted \in BOOLEAN : SaveModel(exported, converted)
    \/ \E sm_loads \in BOOLEAN : LoadPredictor(sm_loads)
    \/ \E input \in PredictInputs : Predict(input)

SpecPersist == InitPersist /\ [][NextPersist]_vars

\* calls on a RealDataCleaner
InitRuns ==
    /\ pp = NewPreprocessor /\ pp_call = NoCall
    /\ tr = NewRun /\ models_dir = EmptyDir
    /\ app = NotStarted /\ app_call = NoPredict /\ resp = NoResponse
    /\ workers = NoWorkers
    /\ model_dir = NoFiles /\ trainer = NewTrainer
    /\ predictor = NoPredictor /\ rt_call = NoRangeCall
    /\ cleaner = NewCleaner /\ clean_call = NoCleanCall
    /\ pipeline = NewPipeline

NextRuns ==
    \/ \E feature_cols \in TrainingFeatureCols : \E fits \in RunFits :
          TrainAdvanced(feature_cols, fits)
    \/ \E feature_cols \in TrainingFeatureCols : \E fits \in RunFits :
          TrainAdvancedRaises(feature_cols, fits, FittedBeforeRaise)

SpecRuns == InitRuns /\ [][NextRuns]_vars

InitClean ==
    /\ pp = NewPreprocessor /\ pp_call = NoCall
    /\ tr = NewRun /\ models_dir = EmptyDir
    /\ app = NotStarted /\ app_call = NoPredict /\ resp = NoResponse
    /\ workers = NoWorkers
    /\ model_dir = NoFiles /\ trainer = NewTrainer
    /\ predictor = NoPredictor /\ rt_call = NoRangeCall
    /\ cleaner = NewCleaner /\ clean_call = NoCleanCall
    /\ pipeline = NewPipeline

NextClean ==
    \/ ConstructCleaner
    \/ \E s \in DOMAIN ConsumptionSchemas :
          \E rows \in RawRows(ConsumptionSchemas[s], MaxRawRows) :
              \E in_place \in BOOLEAN :
                  CleanConsumption(RawFrame(ConsumptionSchemas[s], rows),
                                   in_place)
    \/ \E s \in DOMAIN StationsSchemas :
          \E rows \in RawRows(StationsSchemas[s], MaxRawRows) :
              CleanStations(RawFrame(StationsSchemas[s], rows))

SpecClean == InitClean /\ [][NextClean]_vars

\* a run of run_pipeline.py in a directory without cleaned files or models
InitPipeline == InitClean

NextPipeline ==
    \/ \E choice \in {"1", "2", "3", "4", "5", "6"} : Choose(choice)
    \/ RunInspection
    \/ \E c \in DOMAIN PipelineConsumptionSchemas :
          \E s \in DOMAIN PipelineStationsSchemas :
              \E c_rows \in RawRows(PipelineConsumptionSchemas[c],
                                      MaxPipelineRows) :
                  \E s_rows \in RawRows(PipelineStationsSchemas[s],
                                          MaxPipelineRows) :
                      \E in_place \in BOOLEAN :
                          RunCleaning(
                              RawFrame(PipelineConsumptionSchemas[c], c_rows),
                              RawFrame(PipelineStationsSchemas[s], s_rows),
                              in_place)
    \/ \E raised, exported, converted \in BOOLEAN :
          RunTraining(raised, exported, converted)
    \/ \E sm_loads \in BOOLEAN : RunTesting(sm_loads)

SpecPipeline == InitPipeline /\ [][NextPipeline]_vars

(***************************************************************************)
(* Properties of the feature builder                                       *)
(***************************************************************************)
InferenceCall == pp_call.op \in {"transform", "prepare_features"}

\* C1: once fit_transform has recorded feature_names, the matrix every later
\* prepare_features(fit=False) / transform call builds has exactly the
\* recorded names as its columns, in the recorded order: a produced column
\* that is not recorded is dropped, a recorded name that was not produced is
\* present and 0 in every row, and the scaled matrix has one column per name
C1_FeatureOrder ==
    (pp.fit_called /\ InferenceCall) =>
        /\ pp_call.X.cols = pp.fit_names
        /\ \A c \in SeqRange(pp_call.raw_cols) \ SeqRange(pp.fit_names) :
              ~HasCol(pp_call.X, c)
        /\ \A c \in SeqRange(pp.fit_names) \ SeqRange(pp_call.raw_cols) :
              \A i \in 1..pp_call.X.idx : pp_call.X.data[c][i] = Zero
        /\ pp_call.status = "ok" =>
              \A i \in 1..Len(pp_call.scaled) :
                  Len(pp_call.scaled[i]) = Len(pp.fit_names)

\* a transform after a fit that dropped one produced column and zero-filled
\* one recorded feature
C1_Witness ==
    /\ pp.fit_called /\ pp_call.op = "transform" /\ pp_call.status = "ok"
    /\ pp_call.X.idx >= 1
    /\ SeqRange(pp_call.raw_cols) \ SeqRange(pp.fit_names) # {}
    /\ SeqRange(pp.fit_names) \ SeqRange(pp_call.raw_cols) # {}

\* C9: transform on a preprocessor on which fit_transform (or load) was
\* never called ends in an error and returns no matrix
C9_TransformBeforeFit ==
    (~pp.fit_called /\ pp_call.op = "transform") =>
        (pp_call.status # "ok" /\ pp_call.scaled = <<>>)

\* transform was called with a non-empty record set on a new preprocessor
C9_Witness ==
    /\ ~pp.fit_called /\ pp_call.op = "transform"
    /\ Len(pp_call.df.rows) >= 1 /\ pp_call.df.cols = CanonicalCols
    /\ pp_call.status = "NotFittedError"

CategoricalFields ==
    { [prefix |-> "terrain", col |-> "Terrain"],
      [prefix |-> "driving", col |-> "Driving_Style"] }

IndicatorName(prefix, v) == prefix \o "_" \o v

IndicatorNames(prefix) == {IndicatorName(prefix, v) : v \in SeqRange(CategoryOrder)}

\* row i of the last call has, in field fld, a category no fit-time column stands for
Unseen(i, fld) ==
    /\ fld.col \in pp_call.df.cols
    /\ IndicatorName(fld.prefix, pp_call.df.rows[i][fld.col]) \notin SeqRange(pp.fit_names)

\* C10: with a fitted preprocessor, a record whose Terrain or Driving_Style
\* value was not observed at fit time makes the call raise no error, and
\* every fit-time indicator column of that field is 0 in that record's row
C10_UnseenCategory ==
    (pp.scaler.fitted /\ InferenceCall) =>
        \A i \in 1..Len(pp_call.df.rows) : \A fld \in CategoricalFields :
            Unseen(i, fld) =>
                /\ pp_call.status = "ok"
                /\ pp_call.X.idx = Len(pp_call.df.rows)
                /\ \A c \in SeqRange(pp.fit_names) \cap IndicatorNames(fld.prefix) :
                      pp_call.X.data[c][i] = Zero

\* a transform of a record with an unseen category, the field having
\* indicator columns from fit time
C10_Witness ==
    /\ pp.scaler.fitted /\ pp_call.op = "transform" /\ pp_call.status = "ok"
    /\ \E i \in 1..Len(pp_call.df.rows) : \E fld \in CategoricalFields :
          /\ Unseen(i, fld)
          /\ SeqRange(pp.fit_names) \cap IndicatorNames(fld.prefix) # {}

(***************************************************************************)
(* Properties of the serving prediction call                               *)
(***************************************************************************)
\* C2: every predict_consumption call returns without an error; with
\* MODEL_TYPE = 'single' the value is the prediction of the model in
\* battery_model.pkl for the row, with 'ensemble' it is the sum over the
\* members of ensemble_model.pkl of weight[i] * member[i].predict(row)
C2_UniformPredict ==
    app_call.op = "predict_consumption" =>
        /\ app_call.status = "ok"
        /\ app.MODEL_TYPE = "single" =>
              app_call.value =
                  ModelPredict(models_dir.battery_model[1], <<app_call.row>>)[1]
        /\ app.MODEL_TYPE = "ensemble" =>
              LET e == models_dir.ensemble_model[1]
              IN  app_call.value =
                      RSum([i \in 1..Len(e.models) |->
                              RMul(e.weights[i],
                                   ModelPredict(e.trained_models[i],
                                                <<app_call.row>>)[1])])

(***************************************************************************)
(* Properties of the training run                                          *)
(***************************************************************************)
\* the Test R^2 values of the top three rows of the comparison table
TopScores == [i \in 1..Len(Head3(tr.results_df)) |-> Head3(tr.results_df)[i].TestR2]

\* C4: whenever the ensemble is built from top-3 scores s1..s3 >= 0, every
\* weight[i] is the number s[i] / (s1+s2+s3) and the weights sum to 1
C4_WeightNormalization ==
    (tr.ensemble_built /\ \A i \in 1..Len(TopScores) : ~RLess(TopScores[i], Zero))
        => /\ \A i \in 1..Len(TopScores) :
                 /\ IsFinite(tr.weights[i])
                 /\ RMul(tr.weights[i], RSum(TopScores)) = TopScores[i]
           /\ RSum(tr.weights) = One

\* C5: the bundle in ensemble_model.pkl has only non-negative weights and
\* they sum to 1
C5_BundleWeights ==
    models_dir.ensemble_model # <<>> =>
        LET w == models_dir.ensemble_model[1].weights
        IN  /\ \A i \in 1..Len(w) : IsFinite(w[i]) /\ ~RLess(w[i], Zero)
            /\ RSum(w) = One

\* C6: in a run that evaluated the ensemble, "Ensemble" is selected and the
\* bundle is in ensemble_model.pkl if and only if the ensemble's test R^2 is
\* strictly greater than the best single model's; otherwise the best single
\* model stays selected and is the content of battery_model.pkl
C6_Promotion ==
    (tr.pc = "done" /\ tr.ensemble_evaluated) =>
        LET single == tr.results_df[1]
            promoted == RGreater(tr.ensemble_test_r2, single.TestR2)
        IN  /\ (tr.best_model_name = "Ensemble") <=> promoted
            /\ (models_dir.ensemble_model # <<>>) <=> promoted
            /\ models_dir.model_metadata[1].best_model = tr.best_model_name
            /\ promoted =>
                  /\ models_dir.ensemble_model = <<EnsembleInfo(tr)>>
                  /\ models_dir.battery_model = <<>>
            /\ ~promoted =>
                  /\ tr.best_model_name = single.Model
                  /\ models_dir.battery_model = <<TrainedModel(tr, single.Model)>>

\* a finished run whose ensemble scored exactly the best single R^2 and
\* that saved the single model
C6_Witness ==
    /\ tr.pc = "done" /\ tr.ensemble_evaluated
    /\ tr.ensemble_test_r2 = tr.results_df[1].TestR2
    /\ models_dir.battery_model # <<>>
    /\ \E i \in 1..Len(tr.weights) : tr.weights[i] # tr.weights[1]

\* C7: once sections 9 and 10 have run, the ensemble was built exactly when
\* the best single model's accuracy is below 98, a finished run evaluated
\* it exactly then, and a run that built none finishes with the best single
\* model selected and saved
C7_EnsembleTrigger ==
    tr.results_df # <<>> =>
        LET below == RLess(tr.results_df[1].Accuracy, Int2R(98))
        IN  /\ tr.ensemble_built <=> below
            /\ tr.pc = "done" => (tr.ensemble_evaluated <=> below)
            /\ ~tr.ensemble_built =>
                  /\ tr.pc = "done"
                  /\ tr.best_model_name = tr.results_df[1].Model
                  /\ models_dir.battery_model = <<BestModel(tr)>>
                  /\ models_dir.ensemble_model = <<>>

\* a finished run whose best single model has an accuracy of exactly 98
C7_Witness ==
    /\ tr.pc = "done" /\ ~tr.ensemble_built
    /\ tr.results_df[1].Accuracy = Int2R(98)
    /\ models_dir.battery_model # <<>>

\* C8: a candidate whose fit raises does not abort the run
C8_FailureIsolation == ~(tr.pc = "aborted" /\ tr.error = "fit")

(***************************************************************************)
(* Properties of save_model / EVRangePredictor                             *)
(***************************************************************************)
\* a predictor constructed from a directory after a save_model into it
AfterSave == predictor.state # "none" /\ predictor.saved # <<>>

\* the predictor holds the model of the last save_model
C3_LoadsLastSaved ==
    AfterSave => predictor.state = "loaded" /\ predictor.model = predictor.saved

\* predict returns the range the saved model predicts for the input
C3_SamePrediction ==
    (AfterSave /\ rt_call.op = "predict") =>
        /\ rt_call.status = "ok"
        /\ rt_call.range_km = RangeOf(predictor.saved[1], rt_call.input)

\* C3: for each model type, save_model(dir), then EVRangePredictor(dir),
\* then predict: the predictor holds the model that was just saved, also
\* when dir holds the files of an earlier save of another type, and predict
\* returns the range that model predicts for the input
C3_RoundTrip == C3_LoadsLastSaved /\ C3_SamePrediction

(***************************************************************************)
(* Properties of the POST request handlers                                 *)
(***************************************************************************)
\* the request of the last response and the consumption the loaded model
\* predicts for it
LastRequest == resp.request[1]

LastConsumption == predict_consumption(app, LastRequest.row)

\* C11: when the loaded model predicts a consumption that is zero or
\* negative, /api/predict-range answers {success: false} with an error and
\* never a success response
C11_NonPositiveConsumption ==
    (/\ resp.op = "/api/predict-range"
     /\ LastRequest.kind = "object"
     /\ LastConsumption.status = "ok"
     /\ ~RGreater(LastConsumption.value, Zero))
        => (~resp.success /\ resp.http = 400)

\* the JSON object of the last success response
Body == resp.body[1]

\* C12: every POST to /api/predict-range, /api/recommend-charge, /predict
\* and /recommend-charging is answered; when the body is missing or
\* malformed, a field is not a number, the model call raises or the
\* response cannot be serialised, the answer is {success: false, error}
\* with HTTP 400, otherwise {success: true} with HTTP 200
C12_ErrorsAnswered ==
    resp.op # "none" =>
        /\ resp.http \in {200, 400}
        /\ resp.success <=> resp.http = 200
        /\ resp.error # "" <=> resp.http = 400
        /\ (ParseError(LastRequest) # "" \/ LastConsumption.status # "ok")
              => (resp.http = 400 /\ ~resp.success /\ resp.error # "")

C12_Witness ==
    /\ resp.op = "/api/recommend-charge"
    /\ LastRequest.kind = "object"
    /\ resp.error = "UnboundLocalError"
    /\ resp.http = 400

\* v is x rounded to ndigits decimals
IsRounded(v, x, ndigits) ==
    /\ IsFinite(v) /\ IsFinite(x)
    /\ Pow10(ndigits) % v.d = 0
    /\ ~RGreater(RMul(RAbs(RSub(v, x)), Int2R(2 * Pow10(ndigits))), One)

\* C13: for battery percentage p, capacity c and predicted consumption
\* k > 0, /api/predict-range reports available_energy_kwh = p/100 * c,
\* max_range_km = available / k and predicted_range_km = max * (1 - 0.15),
\* each rounded to two decimals; p = 80, c = 50, k = 0.15 gives 40.0,
\* 266.67 and 226.67
C13_RangeArithmetic ==
    (/\ resp.op = "/api/predict-range"
     /\ LastRequest.kind = "object"
     /\ LastConsumption.status = "ok"
     /\ RGreater(LastConsumption.value, Zero))
        => LET p == Get(LastRequest, "battery_percentage", Int2R(100))
               c == Get(LastRequest, "battery_capacity_kwh", Int2R(50))
               k == LastConsumption.value
               available == RMul(RDiv(p, Int2R(100)), c)
               max_range == RDiv(available, k)
           IN  /\ resp.success
               /\ IsRounded(Body.available_energy_kwh, available, 2)
               /\ IsRounded(Body.max_range_km, max_range, 2)
               /\ IsRounded(Body.predicted_range_km,
                            RMul(max_range, Rat(85, 100)), 2)
               /\ (p = Int2R(80) /\ c = Int2R(50) /\ k = Rat(15, 100))
                     => /\ Body.available_energy_kwh = Int2R(40)
                        /\ Body.max_range_km = Rat(26667, 100)
                        /\ Body.predicted_range_km = Rat(22667, 100)

C13_Witness ==
    /\ resp.op = "/api/predict-range"
    /\ resp.success
    /\ LastRequest.battery_percentage = <<Int2R(80)>>
    /\ LastRequest.battery_capacity_kwh = <<>>
    /\ LastConsumption.value = Rat(15, 100)
    /\ Body.max_range_km = Rat(26667, 100)

\* the quantities of the charge recommendation for the last request, by
\* the endpoint's field names: energy needed, required and missing charge
ChargeNeed(distance_key, capacity_key, current_key) ==
    LET distance == Get(LastRequest, distance_key, Zero)
        capacity == Get(LastRequest, capacity_key, Int2R(50))
        current == Get(LastRequest, current_key, Int2R(100))
        energy == RDiv(RMul(distance, LastConsumption.value), Rat(85, 100))
        share == RMul(RDiv(energy, capacity), Int2R(100))
        required == IF RLess(share, Int2R(100)) THEN share ELSE Int2R(100)
        missing == RSub(required, current)
        charge == IF RGreater(missing, Zero) THEN missing ELSE Zero
    IN  [energy |-> energy, required |-> required, charge |-> charge,
         reachable |-> ~RLess(current, required),
         to_add |-> RMul(RDiv(charge, Int2R(100)), capacity)]

\* C14: /api/recommend-charge reports energy_needed = distance *
\* consumption / 0.85, required_pct = min(energy / capacity * 100, 100),
\* charge_needed = max(0, required - current) and is_reachable =
\* (current >= required), so required <= 100 and charge_needed >= 0;
\* distance 100, capacity 50, current 20, consumption 0.15 gives 17.65,
\* 35.3, 15.3 and is_reachable = false
C14_ChargeArithmetic ==
    (/\ resp.op = "/api/recommend-charge"
     /\ LastRequest.kind = "object"
     /\ LastConsumption.status = "ok"
     /\ RGreater(LastConsumption.value, Zero))
        => LET e == ChargeNeed("distance_to_destination_km",
                               "battery_capacity_kwh", "current_battery_pct")
           IN  /\ resp.success
               /\ IsRounded(Body.energy_needed_kwh, e.energy, 2)
               /\ IsRounded(Body.required_battery_pct, e.required, 1)
               /\ IsRounded(Body.charge_needed_pct, e.charge, 1)
               /\ Body.is_reachable = e.reachable
               /\ ~RGreater(Body.required_battery_pct, Int2R(100))
               /\ ~RLess(Body.charge_needed_pct, Zero)

\* the effective charger power: 60% of the charger's power when the
\* required percentage is above 80, otherwise 85%
EffectivePower(power, required) ==
    IF RGreater(required, Int2R(80)) THEN RMul(power, Rat(60, 100))
    ELSE RMul(power, Rat(85, 100))

\* C15 for the legacy endpoint
C15_LegacyChargingTime ==
    (resp.op = "/recommend-charging" /\ resp.success)
        => LET e == ChargeNeed("distance_remaining", "battery_capacity",
                               "current_soc")
               power == Get(LastRequest, "charger_power", Int2R(50))
           IN  IsRounded(Body.estimated_time_minutes,
                         RMul(RDiv(e.to_add, EffectivePower(power, e.required)),
                              Int2R(60)), 0)

\* C15: the reported charging time is energy_to_add / effective_power * 60
\* with the effective power of the charging curve, on /api/recommend-charge
\* (50 kW charger) as well as on /recommend-charging
C15_ChargingTime ==
    /\ C15_LegacyChargingTime
    /\ (resp.op = "/api/recommend-charge" /\ resp.success)
          => LET e == ChargeNeed("distance_to_destination_km",
                                 "battery_capacity_kwh", "current_battery_pct")
             IN  IsRounded(Body.estimated_charging_time_minutes,
                           RMul(RDiv(e.to_add,
                                     EffectivePower(Int2R(50), e.required)),
                                Int2R(60)), 1)

(***************************************************************************)
(* Properties of the range prediction result                               *)
(***************************************************************************)
\* C16: the confidence of a prediction is "high" exactly when the
\* predicted range is above 150 km, "medium" exactly when it is above 50
\* and at most 150, and "low" exactly when it is at most 50; a range of
\* exactly 150 is "medium" and of exactly 50 is "low"
C16_ConfidenceBands ==
    (rt_call.op = "predict" /\ rt_call.status = "ok") =>
        /\ rt_call.confidence = "high" <=> rt_call.range_km > 150
        /\ rt_call.confidence = "medium" <=>
              (rt_call.range_km > 50 /\ rt_call.range_km <= 150)
        /\ rt_call.confidence = "low" <=> rt_call.range_km <= 50

C16_Witness ==
    /\ rt_call.op = "predict" /\ rt_call.status = "ok"
    /\ rt_call.range_km = 150
    /\ rt_call.confidence = "medium"

(***************************************************************************)
(* Properties of the data cleaner                                          *)
(***************************************************************************)
CleanerCalled == clean_call.op # "none"

\* the raw record set of the last call on the cleaner
LastRaw == clean_call.df[1]

\* the pattern lists and the mapping of the dataset kind of the last call
LastPatterns ==
    IF clean_call.op = "clean_consumption_data" THEN ConsumptionPatterns
    ELSE StationsPatterns

LastMapping ==
    IF clean_call.op = "clean_consumption_data"
    THEN cleaner.consumption_mapping
    ELSE cleaner.stations_mapping

\* the items of a mapping for a canonical field
ItemsOf(mapping, std_name) ==
    {i \in 1..Len(mapping) : mapping[i][1] = std_name}

\* the columns a pattern matches
MatchedBy(pattern, columns) ==
    {i \in 1..Len(columns) : re_search(pattern, str_lower(columns[i]))}

\* the earliest pattern of the list that matches a column, 0 without one
EarliestPattern(pattern_list, columns) ==
    IF \A k \in 1..Len(pattern_list) : MatchedBy(pattern_list[k], columns) = {}
    THEN 0
    ELSE CHOOSE k \in 1..Len(pattern_list) :
            /\ MatchedBy(pattern_list[k], columns) # {}
            /\ \A j \in 1..(k - 1) : MatchedBy(pattern_list[j], columns) = {}

\* C17: after a call on the cleaner, every canonical field has at most one
\* item in the mapping; it has none when no pattern of the field matches a
\* column, and otherwise its column is one the earliest matching pattern of
\* the field matches
C17_EarliestPatternWins ==
    CleanerCalled =>
        \A f \in 1..Len(LastPatterns) :
            LET items == ItemsOf(LastMapping, LastPatterns[f][1])
                k == EarliestPattern(LastPatterns[f][2], LastRaw.columns)
            IN  /\ Cardinality(items) <= 1
                /\ k = 0 => items = {}
                /\ k # 0 =>
                      \E i \in items :
                          re_search(LastPatterns[f][2][k],
                                    str_lower(LastMapping[i][2]))

\* the pipeline run has been through run_cleaning
Cleaned == "cleaning" \in SeqRange(pipeline.steps)

\* canonical fields without an item in a mapping that has items
Unmapped(mapping, std_names) ==
    /\ mapping # <<>>
    /\ \E std_name \in std_names : ItemsOf(mapping, std_name) = {}

TrainingStarted ==
    \/ "training" \in SeqRange(pipeline.steps)
    \/ pipeline.pc \in {"training", "testing"}
    \/ trainer.model # <<>>

\* C18: after run_cleaning, when the consumption mapping has items but none
\* for Range_km, the consumption cleaner returned None, no cleaned
\* consumption file is written and training is never started; likewise for
\* the stations when Station_Name, Latitude or Longitude is unmapped
C18_MissingMandatoryIsFatal ==
    Cleaned =>
        /\ Unmapped(pipeline.cleaner.consumption_mapping, {"Range_km"}) =>
              /\ pipeline.consumption_clean = <<>>
              /\ pipeline.CONSUMPTION_CLEAN_CSV = <<>>
              /\ ~TrainingStarted
        /\ Unmapped(pipeline.cleaner.stations_mapping,
                    {"Station_Name", "Latitude", "Longitude"}) =>
              /\ pipeline.stations_clean = <<>>
              /\ pipeline.STATIONS_CLEAN_CSV = <<>>
              /\ ~TrainingStarted

\* the complete pipeline ended after a cleaning in which Range_km was not
\* mapped
C18_Witness ==
    /\ Cleaned
    /\ pipeline.choice = "1"
    /\ pipeline.pc = "complete"
    /\ Unmapped(pipeline.cleaner.consumption_mapping, {"Range_km"})
    /\ ~Unmapped(pipeline.cleaner.stations_mapping,
                 {"Station_Name", "Latitude", "Longitude"})
    /\ pipeline.stations_clean # <<>>

\* C19: a call on the cleaner that detects no column returns a record set,
\* not None, with the columns, dtypes and rows of its argument
C19_EmptyMappingReturnsInput ==
    CleanerCalled /\ LastMapping = <<>> =>
        /\ clean_call.returned # <<>>
        /\ clean_call.returned[1].columns = LastRaw.columns
        /\ clean_call.returned[1].dtypes = LastRaw.dtypes
        /\ clean_call.returned[1].rows = LastRaw.rows

\* clean_consumption_data detected nothing in a record set with rows
C19_Witness ==
    /\ clean_call.op = "clean_consumption_data"
    /\ cleaner.consumption_mapping = <<>>
    /\ LastRaw.rows # <<>>
    /\ clean_call.returned = clean_call.df

\* every cell of the column, when the record set has it, is a number in
\* [a, b]
InRange(df, name, a, b) ==
    HasColumn(df, name) =>
        \A r \in 1..Len(df.rows) :
            LET x == df.rows[r][ColIndex(df, name)]
            IN  /\ ~IsNaN(x)
                /\ ~RLess(x, Int2R(a))
                /\ ~RLess(Int2R(b), x)

\* C20: the record set clean_consumption_data returns has Current_SoC_% in
\* [0, 100] and Temperature_C in [-20, 60] in every row, and the one
\* clean_stations_data returns has Latitude in [-90, 90] and Longitude in
\* [-180, 180], for the columns it has
C20_CleanedRanges ==
    CleanerCalled /\ clean_call.returned # <<>> =>
        IF clean_call.op = "clean_consumption_data"
        THEN /\ InRange(clean_call.returned[1], "Current_SoC_%", 0, 100)
             /\ InRange(clean_call.returned[1], "Temperature_C", -20, 60)
        ELSE /\ InRange(clean_call.returned[1], "Latitude", -90, 90)
             /\ InRange(clean_call.returned[1], "Longitude", -180, 180)

\* a cleaned consumption record set that kept a row and lost the row whose
\* state of charge is 120
C20_Witness ==
    /\ clean_call.op = "clean_consumption_data"
    /\ clean_call.returned # <<>>
    /\ LastRaw.columns = <<"SOC", "Temp", "Range">>
    /\ \E r \in 1..Len(LastRaw.rows) : LastRaw.rows[r][1] = Int2R(120)
    /\ Len(clean_call.returned[1].rows) = 1
    /\ HasColumn(clean_call.returned[1], "Current_SoC_%")

\* the record set the last call on the cleaner returned
Returned == clean_call.returned[1]

\* a successful clean: columns were detected and a record set returned
CleanSucceeded ==
    CleanerCalled /\ LastMapping # <<>> /\ clean_call.returned # <<>>

\* the mandatory columns of the record set of the last call
MandatoryColumns ==
    IF clean_call.op = "clean_consumption_data"
    THEN [i \in 1..Len(LastMapping) |-> LastMapping[i][1]]
    ELSE <<"Station_Name", "Latitude", "Longitude">>

\* C21: the record set of a successful clean has no null in a mandatory
\* column: Range_km and the mapped feature columns of the consumption
\* data, Station_Name, Latitude and Longitude of the stations
C21_NoNullsLeft ==
    CleanSucceeded =>
        \A c \in 1..Len(MandatoryColumns) :
            \A r \in 1..Len(Returned.rows) :
                ~IsNull(Returned.rows[r][ColIndex(Returned, MandatoryColumns[c])],
                        Returned.dtypes[ColIndex(Returned, MandatoryColumns[c])])

\* the consumption record set of the last call after deduplication,
\* imputation and the standardising of the text columns (lines 116-161)
BeforeClip ==
    Then(Project(LastRaw, LastMapping), LAMBDA df_clean :
        Standardize(
          Standardize(
            Standardize(
              FillMissing(drop_duplicates(df_clean, df_clean.columns), 1,
                          clean_call.in_place),
              "Terrain"),
            "AC_Usage"),
          "Driving_Style"))

\* x is a number in [lo, hi]
Within(x, lo, hi) ==
    ~IsNaN(x) /\ ~IsNaN(lo) /\ ~IsNaN(hi) /\ ~RLess(x, lo) /\ ~RLess(hi, x)

ConsumptionCleaned ==
    clean_call.op = "clean_consumption_data" /\ CleanSucceeded

\* C22: every row clean_consumption_data returns is a row of the
\* deduplicated, imputed record set whose Range_km lies between the 1st and
\* the 99th percentile of Range_km in that record set
C22_OutlierClip ==
    ConsumptionCleaned =>
        \E b \in {BeforeClip} :
            \E p1 \in {quantile(Series(b, "Range_km"), Rat(1, 100))} :
                \E p99 \in {quantile(Series(b, "Range_km"), Rat(99, 100))} :
                    \A r \in 1..Len(Returned.rows) :
                        /\ Returned.rows[r] \in SeqRange(b.rows)
                        /\ Within(Returned.rows[r][ColIndex(Returned, "Range_km")],
                                  p1, p99)

\* a clean that kept a row and removed one whose Range_km is above the 99th
\* percentile
C22_Witness ==
    /\ ConsumptionCleaned
    /\ Returned.rows # <<>>
    /\ \E b \in {BeforeClip} :
          \E r \in 1..Len(b.rows) :
              RLess(quantile(Series(b, "Range_km"), Rat(99, 100)),
                    b.rows[r][ColIndex(b, "Range_km")])

(***************************************************************************)
(* Properties of the model loader                                          *)
(***************************************************************************)
\* the artifacts the loader looks for (predictor.py lines 35-78)
SearchedArtifacts ==
    {"range_predictor_neural.keras", "range_predictor_savedmodel",
     "range_predictor_neural.h5", "range_predictor_random_forest.pkl",
     "range_predictor_gradient_boost.pkl"}

NoModelFound ==
    predictor.state = "failed" /\ predictor.message = "No compatible model found"

\* C23: when the loader finds the preprocessor but no artifact it can load,
\* no predictor is produced, the error is FileNotFoundError and its message
\* names every artifact the loader looked for
C23_FailureNamesSearched ==
    NoModelFound =>
        /\ predictor.model = <<>>
        /\ predictor.error = "FileNotFoundError"
        /\ SearchedArtifacts \subseteq SeqRange(predictor.expected)

\* the part of C23 that holds: the construction fails with
\* FileNotFoundError and the message names the artifacts other than the
\* .h5 file
C23_FailureWithoutH5 ==
    NoModelFound =>
        /\ predictor.model = <<>>
        /\ predictor.error = "FileNotFoundError"
        /\ SearchedArtifacts \ {"range_predictor_neural.h5"}
               \subseteq SeqRange(predictor.expected)

(***************************************************************************)
(* Properties of concurrent serving                                        *)
(***************************************************************************)
Answered(w) == workers[w].pc = "answered"

\* the response to the request of a thread when it is handled alone on the
\* state loaded at start
HandledAlone(w) ==
    Handle(AppImport(models_dir), workers[w].resp.op,
           workers[w].resp.request[1])

SameRequest(v, w) ==
    /\ workers[v].resp.op = workers[w].resp.op
    /\ workers[v].resp.request = workers[w].resp.request

AtLeastEveryCandidate(score) ==
    \A i \in 1..Len(tr.results) : ~RLess(score, tr.results[i].TestR2)

\* C25: after a completed run the best single model is the trained model
\* of a candidate whose test R^2 no other candidate exceeds, and the
\* test_r2 of model_metadata.json is at least the test R^2 of every
\* candidate, with and without the promotion of the ensemble
C25_SelectedIsBest ==
    tr.pc = "done" =>
        /\ \E i \in 1..Len(tr.results) :
              /\ AtLeastEveryCandidate(tr.results[i].TestR2)
              /\ BestModel(tr) = TrainedModel(tr, tr.results[i].Model)
        /\ AtLeastEveryCandidate(models_dir.model_metadata[1].test_r2)

\* a completed run that promoted the ensemble over candidates of
\* different test R^2
C25_Witness ==
    /\ tr.pc = "done"
    /\ tr.best_model_name = "Ensemble"
    /\ models_dir.model_metadata[1].best_model = "Ensemble"
    /\ \E i, j \in 1..Len(tr.results) :
          RLess(tr.results[i].TestR2, tr.results[j].TestR2)

(***************************************************************************)
(* Properties of the pipeline runner                                       *)
(***************************************************************************)
StageOrder == <<"inspection", "cleaning", "training", "testing">>

StageStarted(stage) ==
    \/ stage \in SeqRange(pipeline.steps)
    \/ pipeline.pc = stage

\* C26: in the complete pipeline (choice 1) the stages are entered in the
\* order inspection, cleaning, training, testing, each after the stages
\* before it returned; training is entered only after this run wrote both
\* cleaned files, testing only after training saved the model, and after
\* a cleaning that failed for either dataset neither is entered
C26_StageOrdering ==
    pipeline.choice = "1" =>
        /\ \E n \in 0..Len(StageOrder) :
              pipeline.steps = SubSeq(StageOrder, 1, n)
        /\ \A n \in 1..Len(StageOrder) :
              pipeline.pc = StageOrder[n] =>
                  pipeline.steps = SubSeq(StageOrder, 1, n - 1)
        /\ StageStarted("training") =>
              /\ pipeline.consumption_clean # <<>>
              /\ pipeline.stations_clean # <<>>
              /\ pipeline.CONSUMPTION_CLEAN_CSV = pipeline.consumption_clean
              /\ pipeline.STATIONS_CLEAN_CSV = pipeline.stations_clean
        /\ StageStarted("testing") =>
              /\ "training" \in SeqRange(pipeline.steps)
              /\ trainer.model # <<>>
              /\ model_dir["preprocessor.pkl"] = trainer.model
              /\ model_dir["range_predictor_neural.keras"] = trainer.model
        /\ /\ "cleaning" \in SeqRange(pipeline.steps)
           /\ pipeline.consumption_clean = <<>>
                 \/ pipeline.stations_clean = <<>>
           => /\ ~StageStarted("training")
              /\ ~StageStarted("testing")

\* the complete pipeline ran its four stages to the end
C26_Witness ==
    /\ pipeline.choice = "1"
    /\ pipeline.steps = StageOrder
    /\ pipeline.pc = "complete"
    /\ rt_call.op = "predict"

\* the complete pipeline stopped after a cleaning in which only the
\* stations failed
C26_WitnessStopped ==
    /\ pipeline.choice = "1"
    /\ pipeline.steps = <<"inspection", "cleaning">>
    /\ pipeline.pc = "complete"
    /\ pipeline.CONSUMPTION_CLEAN_CSV # <<>>
    /\ pipeline.stations_clean = <<>>

(***************************************************************************)
(* Properties of inference                                                 *)
(***************************************************************************)
\* C27: a transform or a prepare_features(fit=False) call, which is all
\* that predict and predict_batch do with the preprocessor, leaves
\* feature_names (names and order) and the scaler as they were, whatever
\* the record set and however many calls came before
C27_InferenceKeepsContract ==
    [][pp_call'.op \in {"transform", "prepare_features"} =>
          /\ pp'.feature_names = pp.feature_names
          /\ pp'.scaler = pp.scaler
          /\ pp'.fit_names = pp.fit_names]_vars

\* a transform on a fitted preprocessor, after an earlier inference call,
\* of a record set whose own columns are not the fitted ones
C27_Witness ==
    /\ pp.fit_called
    /\ pp.scaler.fitted
    /\ pp_call.op = "transform"
    /\ pp_call.status = "ok"
    /\ pp_call.raw_cols # pp.feature_names
    /\ pp.feature_names = pp.fit_names

\* no two rows of the record set agree in every column of subset
NoTwoRowsEqualOn(df, subset) ==
    \A q, r \in 1..Len(df.rows) :
        q # r => \E i \in 1..Len(subset) :
                     df.rows[q][ColIndex(df, subset[i])]
                         # df.rows[r][ColIndex(df, subset[i])]

\* C28: the record set returned by clean_consumption_data has no two rows
\* that are equal in every column, and the one returned by
\* clean_stations_data has no two rows with the same Latitude and
\* Longitude
C28_Deduplicated ==
    CleanSucceeded =>
        IF clean_call.op = "clean_consumption_data"
        THEN NoTwoRowsEqualOn(Returned, Returned.columns)
        ELSE NoTwoRowsEqualOn(Returned, <<"Latitude", "Longitude">>)

\* the part of C28 that holds: no two returned stations share their
\* coordinates
C28_StationsDeduplicated ==
    CleanSucceeded /\ clean_call.op = "clean_stations_data" =>
        NoTwoRowsEqualOn(Returned, <<"Latitude", "Longitude">>)

\* what does hold of the consumption data: rows that are equal in the
\* returned record set differed in the raw one, in a text or a null cell
C28_EqualRowsDifferedBefore ==
    ConsumptionCleaned =>
        \A q, r \in 1..Len(Returned.rows) :
            q # r /\ Returned.rows[q] = Returned.rows[r] =>
                \E a, b \in 1..Len(LastRaw.rows) :
                    /\ LastRaw.rows[a] # LastRaw.rows[b]
                    /\ \E i \in 1..Len(LastRaw.columns) :
                          /\ LastRaw.rows[a][i] # LastRaw.rows[b][i]
                          /\ \/ LastRaw.dtypes[i] = "object"
                             \/ IsNull(LastRaw.rows[a][i], LastRaw.dtypes[i])
                             \/ IsNull(LastRaw.rows[b][i], LastRaw.dtypes[i])

(***************************************************************************)
(* Properties of repeated training runs                                    *)
(***************************************************************************)
\* the file the API loads its model from, by the metadata of the directory
SelectedFile(dir) ==
    IF dir.model_metadata[1].best_model = "Ensemble"
    THEN dir.ensemble_model ELSE dir.battery_model

\* C29: after a completed run into a directory that earlier runs wrote
\* to, the file the API selects by model_metadata.json holds what this
\* run dumped (the ensemble bundle when best_model is "Ensemble", the best
\* single model otherwise), the API starts from it, and the metadata of
\* the run has accuracy = 100 * test_r2 and n_features = the number of
\* names in feature_info['feature_names']
C29_ArtifactsOfLastRun ==
    tr.pc = "done" =>
        /\ models_dir.model_metadata # <<>>
        /\ models_dir.model_metadata[1].best_model = tr.best_model_name
        /\ models_dir.model_metadata[1].test_r2 = tr.best_score
        /\ SelectedFile(models_dir) =
              IF tr.best_model_name = "Ensemble"
              THEN <<EnsembleInfo(tr)>> ELSE <<BestModel(tr)>>
        /\ AppImport(models_dir).state = "up"
        /\ IF tr.best_model_name = "Ensemble"
           THEN AppImport(models_dir).model_data = <<EnsembleInfo(tr)>>
           ELSE AppImport(models_dir).model = <<BestModel(tr)>>
        /\ models_dir.model_metadata[1].accuracy =
              RMul(Int2R(100), models_dir.model_metadata[1].test_r2)
        /\ models_dir.feature_info_pkl # <<>>
        /\ models_dir.feature_info_pkl[1].feature_names = tr.X_train_columns
        /\ models_dir.model_metadata[1].n_features =
              Len(models_dir.feature_info_pkl[1].feature_names)

\* a completed run that selected a single model, into a directory in
\* which an earlier run left an ensemble bundle, over a dataset whose
\* feature names are more than its feature columns
C29_Witness ==
    /\ tr.pc = "done"
    /\ tr.best_model_name # "Ensemble"
    /\ models_dir.ensemble_model # <<>>
    /\ models_dir.model_metadata[1].n_features
          > Len(models_dir.feature_info_pkl[1].feature_columns)

\* a completed run that promoted the ensemble, into a directory that
\* holds the single model of an earlier run
C29_WitnessEnsemble ==
    /\ tr.pc = "done"
    /\ tr.best_model_name = "Ensemble"
    /\ models_dir.battery_model # <<>>
    /\ models_dir.battery_model # <<BestModel(tr)>>

(***************************************************************************)
(* Properties of the is_reachable flag                                     *)
(***************************************************************************)
\* a success response of /api/recommend-charge
ChargeAnswered ==
    /\ resp.op = "/api/recommend-charge"
    /\ resp.success

\* the energy in the battery and the buffered energy of the trip, from the
\* request and the consumption the model predicts for it
EnergyInBattery ==
    RMul(RDiv(Get(LastRequest, "current_battery_pct", Int2R(100)),
              Int2R(100)),
         Get(LastRequest, "battery_capacity_kwh", Int2R(50)))

\* C30: in a response of /api/recommend-charge with is_reachable = true
\* the energy in the battery, current_battery_pct / 100 *
\* battery_capacity_kwh, is at least energy_needed_kwh, and is_reachable
\* is true exactly when the charge_needed_pct of the response is 0
C30_ReachableIsSound ==
    ChargeAnswered =>
        /\ Body.is_reachable =>
              RGeq(EnergyInBattery,
                   ChargeNeed("distance_to_destination_km",
                              "battery_capacity_kwh",
                              "current_battery_pct").energy)
        /\ Body.is_reachable <=> Body.charge_needed_pct = Zero

\* the first half alone
C30_ReachableCoversTrip ==
    ChargeAnswered /\ Body.is_reachable =>
        RGeq(EnergyInBattery,
             ChargeNeed("distance_to_destination_km", "battery_capacity_kwh",
                        "current_battery_pct").energy)

\* the second half alone
C30_ReachableIffNoCharge ==
    ChargeAnswered => (Body.is_reachable <=> Body.charge_needed_pct = Zero)

\* what holds: is_reachable is true exactly when the charge need before
\* rounding is 0, and then the battery holds the clamped requirement
C30_ReachableIffNothingMissing ==
    ChargeAnswered =>
        LET e == ChargeNeed("distance_to_destination_km",
                            "battery_capacity_kwh", "current_battery_pct")
        IN  /\ Body.is_reachable <=> e.charge = Zero
            /\ Body.is_reachable =>
                  RGeq(Get(LastRequest, "current_battery_pct", Int2R(100)),
                       e.required)

====
